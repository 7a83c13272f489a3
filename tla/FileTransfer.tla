---------------------------- MODULE FileTransfer ----------------------------
(***************************************************************************)
(* File transfers (objects 33406 and 33407) and what they share with       *)
(* firmware downloads: fileTransfer.c, the writes of object 33406 and      *)
(* omanager_SetUpdatePackageUri in handlers.c, the handlers that a write   *)
(* leaves for the end of its command (lwm2mcoreSession.c), the file        *)
(* branches of lwm2mcorePackageDownloader.c and the list of files          *)
(* (objects.c).                                                            *)
(*                                                                         *)
(* A command of the server is a sequence of writes.  A handler of the main *)
(* thread, or of the download thread, is one step; DownloadControl.tla has *)
(* the threads interleave inside those steps.  A handler stores its        *)
(* changes one by one, though, and the power may be lost after any of them *)
(* (deviation "torn", which the run allows): the rest of the handler, with *)
(* what it left in memory for later, does not happen.  The data of a       *)
(* transfer is not modelled, only whether all of it is stored.             *)
(***************************************************************************)
EXTENDS Integers, FiniteSets, Sequences

CONSTANTS
  Urls, NoUrl,
  FileIds,      \* instance IDs that the client gives to its files
  MaxFiles,     \* LWM2MCORE_FILE_TRANSFER_NUMBER_MAX
  Deviations,   \* inputs that the instance allows, see DeviationKinds
  MaxRequests,  \* bound: commands of the server
  MaxFaults     \* bound: broken transfers and power losses

\* "nameOnly": a command writes a file name without a URI;
\* "refused": the client refuses a request while a file transfer is in progress;
\* "full": it says that it has the file while a firmware is downloaded and the
\*    list of files is full;
\* "failsElsewhere": a command fails that comes from a server whose connection
\*    is not the first one of the list;
\* "half": the answer about the size breaks off after a header that says 200;
\* "noAnswer": the server does not answer at all when it is asked for the size;
\* "deleteFails": the client cannot delete a file;
\* "torn": the power is lost between two writes of one handler to the storage.  Without
\*    it power losses only come between handlers.
DeviationKinds ==
  {"nameOnly", "refused", "full", "failsElsewhere", "half", "noAnswer", "deleteFails", "torn"}

ASSUME FileTransferAssumption ==
  /\ NoUrl \notin Urls
  /\ IsFiniteSet(FileIds) /\ MaxFiles \in Nat \ {0} /\ MaxFiles < Cardinality(FileIds)
  /\ Deviations \subseteq DeviationKinds
  /\ MaxRequests \in Nat /\ MaxFaults \in Nat

VARIABLES
  dev,      \* what the main thread reads and writes, a record
  pc,       \* where the download thread is
  kind,     \* PkgDwlObj.packageType
  files,    \* the files that the client has
  known,    \* FileTransferListPtr
  listed,   \* the instances of object 33407
  seen,     \* the instances that the server was told of
  up,       \* the device is registered
  requests, faults

lists == <<files, known, listed, seen, up>>
thread == <<pc, kind>>
vars == <<dev, thread, lists, requests, faults>>

NoDownload(type) == [type |-> type, url |-> NoUrl, size |-> FALSE, whole |-> FALSE]

\* dev is a record: info is the URI of FileTransferInfo; ft, the state and the result
\* of the workspace of fileTransfer.c; fw, the state of object 5; ws, the resume
\* information of workspace.c, with the type of the update; timer tells whether
\* LWM2MCORE_TIMER_DOWNLOAD runs; status is what the transfer looks at; handlers
\* tells whether the first connection of the list has the two handlers; passed holds
\* what the handler that runs has stored, write by write, and is empty between handlers.

----------------------------------------------------------------------------
(* Power losses *)

\* What a start finds in the storage: ft, fw and ws.  The rest is in memory.
Restarted(d) ==
  [d EXCEPT !.info = NoUrl, !.timer = FALSE, !.status = "OK", !.handlers = FALSE, !.passed = {}]

\* A power loss that leaves the storage as d has it
PowerLoss(d) ==
  /\ faults < MaxFaults
  /\ dev' = Restarted(d)
  /\ pc' = "off" /\ kind' = "NONE"
  /\ known' = {} /\ listed' = {} /\ up' = FALSE
  /\ faults' = faults + 1
  /\ UNCHANGED seen

\* What is stored is s.
Holding(d, s) == [d EXCEPT !.ft = s.ft, !.fw = s.fw, !.ws = s.ws]

\* A handler that makes d of dev loses power after one of its writes.
Torn(d) ==
  /\ "torn" \in Deviations
  /\ \E s \in d.passed : PowerLoss(Holding(d, s))

\* It runs to its end.
Done(d) == dev' = [d EXCEPT !.passed = {}]

----------------------------------------------------------------------------
(* The workspaces *)

\* Each of the functions below is one write to the storage, or several of them.
Stored(d) == [d EXCEPT !.passed = @ \cup {[ft |-> d.ft, fw |-> d.fw, ws |-> d.ws]}]

\* fileTransfer_SetState and fileTransfer_SetResult, downloader_SetFwUpdateState
SetState(d, state) == Stored([d EXCEPT !.ft.state = state])
SetResult(d, result) == Stored([d EXCEPT !.ft.result = result])
SetFwState(d, state) == Stored([d EXCEPT !.fw = state])

\* lwm2mcore_DeletePackageDownloaderResumeInfo
DeleteResumeInfo(d) == Stored([d EXCEPT !.ws = NoDownload(d.ws.type)])

\* Mutant: the result of an aborted file transfer is not set
AbortDownload_NoResult(d) ==
  LET e == DeleteResumeInfo([d EXCEPT !.status = "ABORTED"])
  IN IF d.ws.type = "FILE" THEN SetState(e, "IDLE") ELSE SetFwState(e, "IDLE")

\* Mutant: there is nothing to abort without a URL
AbortDownload_OnlyWithUrl(d) ==
  LET e == DeleteResumeInfo([d EXCEPT !.status = "ABORTED"])
  IN IF d.ws.url = NoUrl THEN d
     ELSE IF d.ws.type = "FILE" THEN SetResult(SetState(e, "IDLE"), "FAILURE")
                                ELSE SetFwState(e, "IDLE")

\* lwm2mcore_AbortDownload, for the type that the workspace has by now: the URL is
\* erased first.
AbortDownload(d) ==
  LET e == DeleteResumeInfo([d EXCEPT !.status = "ABORTED"])
  IN IF d.ws.type = "FILE" THEN SetResult(SetState(e, "IDLE"), "FAILURE")
                           ELSE SetFwState(e, "IDLE")

\* downloader_InitializeDownload and the start of the timer: the workspace with the
\* URL, which has the state of object 5 as well, is stored last.
InitializeDownload(d, type, u) ==
  LET e == IF type = "FILE" THEN SetResult(SetState(d, "PROCESSING"), "INITIAL")
                            ELSE [d EXCEPT !.fw = "IDLE"]
  IN Stored([e EXCEPT !.ws.url = u, !.timer = TRUE])

\* omanager_SetUpdatePackageUri: the type is stored first.
SetUpdatePackageUri(d, type, u) ==
  LET t == Stored([d EXCEPT !.ws.type = type])
  IN IF u = NoUrl THEN AbortDownload(t)
     ELSE IF type = "FW" /\ u = t.ws.url THEN t
     ELSE InitializeDownload(
            DeleteResumeInfo(IF t.ws.url # NoUrl THEN AbortDownload(t) ELSE t), type, u)

----------------------------------------------------------------------------
(* Commands of the server *)

\* fileTransfer_PreOperationFailure
PreOperationFailure(d, answer) ==
  SetResult(d, IF answer = "exists" THEN "ALREADY_EXISTS" ELSE "FAILURE")

\* The answers of lwm2mcore_FileTransferRequest: "present" and "exists" are
\* ALREADY_PROCESSED without and with couldDwnldBeLaunched.
Answers(d) ==
  {"ok"} \cup
  (IF d.ws.url = NoUrl \/ d.ws.type = "FILE" \/ Cardinality(listed) < MaxFiles
      \/ "full" \in Deviations
     THEN {"present"} ELSE {}) \cup
  (IF d.ws.url = NoUrl \/ (d.ws.type = "FW" /\ Cardinality(listed) < MaxFiles)
      \/ "refused" \in Deviations
     THEN {"refused", "exists"} ELSE {})

\* fileTransfer_TreatInfo
TreatInfo(d, answer) ==
  CASE answer = "present" -> d
    [] answer = "ok" ->
         SetState(SetUpdatePackageUri(SetState(d, "IDLE"), "FILE", d.info), "PROCESSING")
    [] OTHER -> [PreOperationFailure(SetState(d, "IDLE"), answer) EXCEPT !.timer = FALSE]

\* Mutant: off by one
CheckFileTransferPossible_OneMore(d) ==
  IF Cardinality(listed) = MaxFiles + 1
    THEN [SetResult(SetState(DeleteResumeInfo(d), "IDLE"), "FAILURE") EXCEPT !.timer = FALSE]
    ELSE d

\* fileTransfer_CheckFileTransferPossible
CheckFileTransferPossible(d) ==
  IF Cardinality(listed) = MaxFiles
    THEN [SetResult(SetState(DeleteResumeInfo(d), "IDLE"), "FAILURE") EXCEPT !.timer = FALSE]
    ELSE d

\* The writes of a command: the name, the URI, another resource of object 33406,
\* and the package URI of object 5.  What is "bad" is refused: too long, empty,
\* or out of range.
Writes ==
  [rid: {"NAME"}, value: {"good", "bad"}] \cup [rid: {"URI"}, value: Urls \cup {NoUrl, "bad"}]
    \cup [rid: {"OTHER"}, value: {"bad"}] \cup [rid: {"PACKAGE"}, value: Urls \cup {NoUrl}]

Commands ==
  {<<w>> : w \in Writes} \cup
  {<<v, w>> : v, w \in {x \in Writes : x.rid # "PACKAGE"}}

Names(command, value) == \E i \in DOMAIN command : command[i] = [rid |-> "NAME", value |-> value]

\* What a server sends: each resource once, and a name with its URI
IsSent(command) ==
  /\ \A i, j \in DOMAIN command : i # j => command[i].rid # command[j].rid
  /\ Names(command, "good") /\ "nameOnly" \notin Deviations
       => \E i \in DOMAIN command : command[i].rid = "URI" /\ command[i].value # NoUrl

Succeeds(command) == \A i \in DOMAIN command : command[i].value # "bad"

\* omanager_WriteFileTransferObj, and omanager_WriteFwUpdateObj for the package URI
WriteResource(d, w) ==
  LET h == IF w.rid = "NAME" THEN [d EXCEPT !.handlers = TRUE] ELSE d
  IN IF w.value = "bad" THEN PreOperationFailure(h, "refused")
     ELSE CASE w.rid = "URI" /\ w.value = NoUrl -> SetUpdatePackageUri(h, "FILE", NoUrl)
            [] w.rid = "URI" /\ w.value # NoUrl -> [h EXCEPT !.info = w.value]
            [] w.rid = "PACKAGE" -> SetUpdatePackageUri(h, "FW", w.value)
            [] OTHER -> h

\* WriteCb: a write that fails ends the command.
WriteCb(d, command) ==
  IF command[1].value = "bad" \/ Len(command) = 1
    THEN WriteResource(d, command[1])
    ELSE WriteResource(WriteResource(d, command[1]), command[2])

\* lwm2mcore_ExeCommandEndHandler, before the response
CommandEnd(d, succeeds, answer) == IF d.handlers /\ succeeds THEN TreatInfo(d, answer) ELSE d

\* lwm2mcore_ExecPostRequestHandler, after it
PostRequest(d, succeeds) ==
  [(IF d.handlers /\ succeeds THEN CheckFileTransferPossible(d) ELSE d) EXCEPT !.handlers = FALSE]

\* A command on the first connection of the list, where the handlers are.  The
\* failure of TreatInfo may or may not count for the second handler.  The handlers are
\* in memory: a power loss before the second one leaves the transfer unchecked.
Command(command) ==
  /\ up /\ requests < MaxRequests /\ pc # "init" /\ IsSent(command)
  /\ LET d == WriteCb(dev, command)
     IN \E answer \in Answers(d), counts \in BOOLEAN :
          LET e == PostRequest(CommandEnd(d, Succeeds(command), answer),
                               Succeeds(command) /\ (answer = "ok" \/ counts))
          IN \/ Done(e) /\ UNCHANGED <<thread, lists, faults>>
             \/ Torn(e) /\ UNCHANGED files
  /\ requests' = requests + 1

\* A command of a second server, on another connection: the handlers stay on the
\* first one, to run at the end of the next command there.
CommandElsewhere(command) ==
  /\ up /\ requests < MaxRequests /\ pc # "init" /\ IsSent(command)
  /\ Succeeds(command) \/ "failsElsewhere" \in Deviations
  /\ \/ Done(WriteCb(dev, command)) /\ UNCHANGED <<thread, lists, faults>>
     \/ Torn(WriteCb(dev, command)) /\ UNCHANGED files
  /\ requests' = requests + 1

----------------------------------------------------------------------------
(* The download *)

\* SetUpdateResult, then the state and the result of a download that fails
\* before it starts: object 5 keeps its state.
NotStarted(d) ==
  DeleteResumeInfo(IF d.ws.type = "FILE" THEN SetResult(SetState(d, "IDLE"), "FAILURE") ELSE d)

\* What is known of the size: the URL may have been erased, a name may not be
\* found, an answer may break off or not come.
Sizes(d) ==
  IF d.ws.url = NoUrl THEN {"notFound"}
  ELSE {"size", "notFound"} \cup ({"half", "noAnswer"} \cap Deviations)

\* GetPackageSize with SetUpdateResultOnHttpError
GetPackageSize(d, answer) ==
  CASE answer = "size" -> [d EXCEPT !.ws.size = TRUE]
    [] answer = "half" -> DeleteResumeInfo(d)
    [] answer = "noAnswer" /\ d.ws.type = "FILE" ->
         DeleteResumeInfo(SetResult(SetState(d, "IDLE"), "INITIAL"))
    [] OTHER -> NotStarted(d)

\* downloader_PackageDownloadHandler.  It runs once the thread that was told to
\* stop has ended.
PackageDownloadHandler ==
  /\ dev.timer /\ pc = "off"
  /\ \E answer \in Sizes(dev) :
       LET d == GetPackageSize([dev EXCEPT !.timer = FALSE,
                                           !.status = IF dev.ws.url = NoUrl THEN @ ELSE "OK"],
                               answer)
       IN \/ /\ Done(d)
             /\ pc' = IF answer = "size" THEN "init" ELSE "off"
             /\ UNCHANGED <<kind, lists, faults>>
          \/ Torn(d) /\ UNCHANGED files
  /\ UNCHANGED requests

\* PkgDwlEnd: after an error the result is stored before the state, after a success the
\* state before the result; the URL is erased last, by the event DL_END.
PkgDwlEnd(d, type, succeeds) ==
  DeleteResumeInfo(
    CASE type # "FILE" -> SetFwState(d, IF succeeds THEN "DOWNLOADED" ELSE "IDLE")
      [] type = "FILE" /\ succeeds -> SetResult(SetState(d, "IDLE"), "SUCCESS")
      [] OTHER -> SetState(SetResult(d, "FAILURE"), "IDLE"))

\* PkgDwlInit and PkgDwlDownload up to the request.  A transfer that has all of
\* its data asks for what comes after it, which fails, as does one without a URL.
Start ==
  /\ pc = "init"
  /\ LET d == IF dev.ws.type = "FILE" THEN SetState(SetResult(dev, "INITIAL"), "TRANSFERRING")
                                      ELSE SetFwState(dev, "DOWNLOADING")
         fails == dev.ws.url = NoUrl \/ dev.ws.whole
         e == IF fails THEN PkgDwlEnd(d, dev.ws.type, FALSE) ELSE [d EXCEPT !.status = "OK"]
     IN \/ /\ Done(e)
           /\ kind' = dev.ws.type
           /\ pc' = IF fails THEN "off" ELSE "receive"
           /\ UNCHANGED <<lists, faults>>
        \/ Torn(e) /\ UNCHANGED files
  /\ UNCHANGED requests

\* A transfer that was aborted ends without a result.
Stop ==
  /\ pc = "receive" /\ dev.status = "ABORTED"
  /\ pc' = "off"
  /\ UNCHANGED <<dev, kind, lists, requests, faults>>

\* PkgDwlStore with the last data: the loop leaves a file transfer there, a
\* firmware download goes on to its end.
Received ==
  /\ pc = "receive" /\ dev.status = "OK"
  /\ IF kind = "FILE"
       THEN /\ dev' = [dev EXCEPT !.ws.whole = TRUE] /\ pc' = "received"
            /\ UNCHANGED <<kind, lists, faults>>
       ELSE \E succeeds \in BOOLEAN :
              \/ /\ Done(PkgDwlEnd(dev, kind, succeeds)) /\ pc' = "off"
                 /\ UNCHANGED <<kind, lists, faults>>
              \/ Torn(PkgDwlEnd(dev, kind, succeeds)) /\ UNCHANGED files
  /\ UNCHANGED requests

\* Mutant: what the client has no more stays in the list
Instances_Kept(k, l, current) == [known |-> k \cup current, listed |-> l \cup current]

\* UpdateObjectInstanceListWakaama: known and listed after the client gave the
\* current list.  Known files that are neither current nor listed stay.
Instances(k, l, current) ==
  LET checked == k \cup current
      left == checked \ {i \in checked : i \notin current /\ i \in l}
  IN [known |-> left, listed |-> (l \cup current) \cap left]

\* lwm2mcore_UpdateFileTransferList: a change is told with a registration update.
UpdateFileTransferList(current) ==
  LET new == Instances(known, listed, current)
  IN /\ files' = current /\ known' = new.known /\ listed' = new.listed
     /\ seen' = IF new.listed # listed \/ current \ known # {} THEN new.listed ELSE seen

\* The client calls lwm2mcore_HandlePackageDownloader again: the checksum is
\* compared.  It keeps the file and tells it, before or after the end is stored, or it
\* does not keep it.
HandlePackageDownloader ==
  /\ pc = "received" /\ up
  /\ IF dev.status = "ABORTED"
       THEN pc' = "off" /\ UNCHANGED <<dev, kind, lists, faults>>
       ELSE \/ \E i \in FileIds \ files :
                 \/ /\ Done(PkgDwlEnd(dev, kind, TRUE)) /\ pc' = "off"
                    /\ UpdateFileTransferList(files \cup {i})
                    /\ UNCHANGED <<kind, up, faults>>
                 \/ Torn(PkgDwlEnd(dev, kind, TRUE)) /\ files' \in {files, files \cup {i}}
            \/ /\ Done(PkgDwlEnd(dev, kind, FALSE)) /\ pc' = "off"
               /\ UNCHANGED <<kind, lists, faults>>
            \/ Torn(PkgDwlEnd(dev, kind, FALSE)) /\ UNCHANGED files
  /\ UNCHANGED requests

\* A transfer whose connection breaks off: it fails when the connection was
\* closed, and waits for the next registration otherwise.
TransferBreaks ==
  /\ pc = "receive" /\ dev.status = "OK" /\ faults < MaxFaults
  /\ \/ /\ Done(PkgDwlEnd(dev, kind, FALSE)) \/ UNCHANGED dev
        /\ pc' = "off" /\ faults' = faults + 1
        /\ UNCHANGED <<kind, lists>>
     \/ Torn(PkgDwlEnd(dev, kind, FALSE)) /\ UNCHANGED files
  /\ UNCHANGED requests

----------------------------------------------------------------------------
(* The list of files, registrations and power losses *)

\* DeleteCb: the instance is removed first.  FileTransferListPtr keeps the entry.
DeleteFile ==
  /\ up /\ requests < MaxRequests
  /\ \E i \in listed, deleted \in {TRUE} \cup {"deleteFails" \notin Deviations} :
       /\ listed' = listed \ {i}
       /\ IF deleted THEN files' = files \ {i} /\ seen' = seen \ {i}
                     ELSE UNCHANGED <<files, seen>>
  /\ requests' = requests + 1
  /\ UNCHANGED <<dev, thread, known, up, faults>>

\* The client deletes files of its own accord.
ClientDeletes ==
  /\ up
  /\ \E i \in files : UpdateFileTransferList(files \ {i})
  /\ UNCHANGED <<dev, thread, up, requests, faults>>

\* Mutant: a file transfer is only resumed while object 33406 is busy
HasDownload_OnlyBusy(d) ==
  d.ws.url # NoUrl /\ d.ws.type # "NONE" /\ (d.ws.type = "FILE" => d.ft.state # "IDLE")

\* lwm2mcore_GetDownloadInfo
HasDownload(d) == d.ws.url # NoUrl /\ d.ws.type # "NONE"

\* A registration: ObjectRegister takes the list that the client gave, and
\* downloadManager_ResumePackageDownloader resumes a download, or has its size
\* asked for.
Register ==
  /\ pc = "off" /\ (~up \/ HasDownload(dev))
  /\ up' = TRUE
  /\ LET new == Instances(known, listed, files)
     IN known' = new.known /\ listed' = new.listed /\ seen' = new.listed
  /\ CASE ~HasDownload(dev) -> UNCHANGED <<dev, pc>>
       [] HasDownload(dev) /\ (~dev.ws.size \/ (dev.ws.type = "FW" /\ dev.fw = "IDLE")) ->
            dev' = [dev EXCEPT !.timer = TRUE] /\ UNCHANGED pc
       [] OTHER -> pc' = "init" /\ UNCHANGED dev
  /\ UNCHANGED <<kind, files, requests, faults>>

\* A power loss between handlers: the workspaces and the files stay.
Crash == PowerLoss(dev) /\ UNCHANGED <<files, requests>>

----------------------------------------------------------------------------

\* A device that has never transferred a file, before its first registration.
Init ==
  /\ dev = [info |-> NoUrl, ft |-> [state |-> "IDLE", result |-> "INITIAL"], fw |-> "IDLE",
            ws |-> NoDownload("NONE"), timer |-> FALSE, status |-> "OK", handlers |-> FALSE,
            passed |-> {}]
  /\ pc = "off" /\ kind = "NONE"
  /\ files \in {s \in SUBSET FileIds : Cardinality(s) <= MaxFiles}
  /\ known = {} /\ listed = {} /\ seen = {} /\ up = FALSE
  /\ requests = 0 /\ faults = 0

Next ==
  \/ (\E command \in Commands : Command(command))
  \/ (\E command \in Commands : CommandElsewhere(command))
  \/ PackageDownloadHandler \/ Start \/ Stop \/ Received \/ HandlePackageDownloader
  \/ TransferBreaks \/ DeleteFile \/ ClientDeletes \/ Register \/ Crash

\* The download thread is scheduled and a call of the transport returns at last;
\* the timer expires, the client finishes what was received, and the device
\* registers again.
Fairness ==
  /\ WF_vars(Start) /\ WF_vars(Stop) /\ WF_vars(Received) /\ WF_vars(HandlePackageDownloader)
  /\ WF_vars(PackageDownloadHandler) /\ WF_vars(Register)

Spec == Init /\ [][Next]_vars
FairSpec == Spec /\ Fairness

----------------------------------------------------------------------------
(* Properties *)

\* A registered device offers the files that the client has, and the server was
\* told so, whatever was deleted by either side before.
ServerSeesList == up => listed = files /\ seen = listed

\* When object 33406 becomes idle in a handler that runs to its end, it tells how the
\* transfer ended.  A file that was received well is stored as IDLE before SUCCESS
\* (lwm2mcorePackageDownloader.c:2777): after a power loss there the object is idle
\* without its result, until the URL that is still stored is resumed (UrlIsDealtWith).
EndsWithResult ==
  [][up' /\ dev.ft.state # "IDLE" /\ dev'.ft.state = "IDLE" => dev'.ft.result # "INITIAL"]_vars

\* While the workspace belongs to file transfers, object 33406 is busy exactly as
\* long as the workspace has a URL: no transfer waits for a download that nobody
\* will start, and none goes on that the server believes ended.
BusyWithUrl ==
  dev.ws.type = "FILE" => (dev.ft.state # "IDLE" <=> dev.ws.url # NoUrl)

Room == Cardinality(files) < MaxFiles

\* A transfer only goes on while there is room for its file.
RoomForTransfer == dev.ws.type = "FILE" /\ dev.ft.state # "IDLE" => Room

\* A download that was not aborted is the one that the workspace has.
ThreadHasUrl ==
  /\ dev.status = "OK" /\ pc = "receive"
       => dev.ws.url # NoUrl /\ (dev.ws.type = "FILE" => kind = "FILE")
  /\ dev.status = "OK" /\ pc \in {"receive", "received"} /\ kind = "FILE" => Room

Agreed ==
  BusyWithUrl /\ RoomForTransfer /\ ThreadHasUrl /\ Cardinality(files) <= MaxFiles

\* Object 33406, the workspace, the download thread and the list of files agree after
\* every handler that runs to its end if they did before, in every order of the commands
\* of both servers, the thread, the timer, deletions and registrations.  The handlers
\* store the URL and the state one after the other (lwm2mcorePackageDownloader.c:3293 and
\* 3320, update.c:109 and 119), and keep the check of the room in memory
\* (lwm2mcoreSession.c:2106): only a power loss between two of their writes, after which
\* the device is off, makes them disagree.
HandlersAgree == [][up' /\ Agreed => Agreed']_vars

\* Whatever a power loss in the middle of a handler left, a state without a URL, a URL
\* without a state, or a transfer that was not checked, the next command that changes
\* object 33406 or its URL leaves them in agreement, and a full list without a
\* transfer: lwm2mcore_AbortDownload, TreatInfo and the check believe nothing they
\* find.  A command that loses power itself ends with the device off.  The check looks
\* for exactly as many files as there may be (fileTransfer.c:298), and misses more.
CommandRepairs ==
  [][requests' # requests /\ up' /\ (dev'.ws # dev.ws \/ dev'.ft.state # dev.ft.state)
       => BusyWithUrl' /\ (Cardinality(files') <= MaxFiles => RoomForTransfer')]_vars

\* A URL that is stored for a file is used up, even one that a power loss in the middle
\* of a handler left to an object that is idle: every registration resumes it, and the
\* end of the transfer erases it, unless a firmware download takes the workspace.
UrlIsDealtWith ==
  dev.ws.type = "FILE" /\ dev.ws.url # NoUrl ~> dev.ws.type # "FILE" \/ dev.ws.url = NoUrl

=============================================================================
