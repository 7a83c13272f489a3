------------------------- MODULE FileTransferProofs -------------------------
(***************************************************************************)
(* File transfers, for any number of URLs, files, commands and faults, and *)
(* power losses between any two writes of a handler: the list of files,    *)
(* the result of a transfer, object 33406 in agreement with its workspace, *)
(* and what a command makes of a disagreement.                             *)
(***************************************************************************)
EXTENDS FileTransfer, FiniteSetTheorems, TLAPS

----------------------------------------------------------------------------
(* The list of files *)

\* The list is empty until the device registers
ListInv == ServerSeesList /\ (~up => listed = {})

LEMMA InstancesOfCurrent ==
  ASSUME NEW k, NEW l, NEW current
  PROVE  /\ l \subseteq current => Instances(k, l, current).listed = current
         /\ \A i : current = l \ {i} => Instances(k, l, current).listed = current
  BY DEF Instances

LEMMA TornList ==
  ASSUME NEW d, Torn(d)
  PROVE  ListInv'
  BY DEF Torn, PowerLoss, ListInv, ServerSeesList

LEMMA ListStep ==
  ASSUME "deleteFails" \notin Deviations, ListInv, [Next]_vars
  PROVE  ListInv'
<1> USE DEF ListInv, ServerSeesList
<1>1. ASSUME NEW command \in Commands, Command(command) PROVE ListInv'
  <2>1. UNCHANGED lists \/ \E d : Torn(d)
    BY <1>1 DEF Command
  <2> QED
    BY <2>1, TornList DEF lists
<1>2. ASSUME NEW command \in Commands, CommandElsewhere(command) PROVE ListInv'
  <2>1. UNCHANGED lists \/ \E d : Torn(d)
    BY <1>2 DEF CommandElsewhere
  <2> QED
    BY <2>1, TornList DEF lists
<1>3. CASE PackageDownloadHandler \/ Start \/ Stop \/ Received \/ TransferBreaks
  <2>1. Start => UNCHANGED lists \/ \E d : Torn(d)
    BY DEF Start
  <2>2. PackageDownloadHandler => UNCHANGED lists \/ \E d : Torn(d)
    BY DEF PackageDownloadHandler
  <2>3. UNCHANGED lists \/ \E d : Torn(d)
    BY <1>3, <2>1, <2>2 DEF Stop, Received, TransferBreaks
  <2> QED
    BY <2>3, TornList DEF lists
<1>4. CASE HandlePackageDownloader
  <2>1. ASSUME NEW i \in FileIds \ files, UpdateFileTransferList(files \cup {i}), up
        PROVE  listed' = files' /\ seen' = listed'
    <3>1. listed = files
      BY <2>1
    <3>2. listed' = files \cup {i}
      BY <2>1, <3>1, InstancesOfCurrent DEF UpdateFileTransferList
    <3> QED
      BY <2>1, <3>1, <3>2 DEF UpdateFileTransferList
  <2>2. \/ UNCHANGED lists
        \/ \E d : Torn(d)
        \/ up' = up /\ \E i \in FileIds \ files : UpdateFileTransferList(files \cup {i})
    BY <1>4 DEF HandlePackageDownloader
  <2>3. up
    BY <1>4 DEF HandlePackageDownloader
  <2> QED
    BY <2>1, <2>2, <2>3, TornList DEF lists
<1>5. CASE DeleteFile
  BY <1>5 DEF DeleteFile
<1>6. CASE ClientDeletes
  <2>1. PICK i \in files : UpdateFileTransferList(files \ {i})
    BY <1>6 DEF ClientDeletes
  <2>2. up /\ up' /\ listed = files
    BY <1>6 DEF ClientDeletes
  <2>3. listed' = files \ {i}
    BY <2>1, <2>2, InstancesOfCurrent DEF UpdateFileTransferList
  <2> QED
    BY <2>1, <2>2, <2>3 DEF UpdateFileTransferList
<1>7. CASE Register
  <2>1. listed \subseteq files
    BY <1>7
  <2> QED
    BY <1>7, <2>1, InstancesOfCurrent DEF Register
<1>8. CASE Crash
  BY <1>8 DEF Crash, PowerLoss
<1>9. CASE UNCHANGED vars
  BY <1>9 DEF vars, lists
<1> QED
  BY <1>1, <1>2, <1>3, <1>4, <1>5, <1>6, <1>7, <1>8, <1>9 DEF Next

\* A registered device offers the files that the client has and the server knows it,
\* whichever side deletes files and wherever the power is lost, if the client deletes
\* the file that it is told to.
THEOREM ListCorrect ==
  ASSUME "deleteFails" \notin Deviations
  PROVE  Spec => []ServerSeesList
<1>1. Init => ListInv
  BY DEF Init, ListInv, ServerSeesList
<1>2. ListInv /\ [Next]_vars => ListInv'
  BY ListStep
<1>3. ListInv => ServerSeesList
  BY DEF ListInv
<1> QED
  BY <1>1, <1>2, <1>3, PTL DEF Spec

----------------------------------------------------------------------------
(* The record that the handlers of the main thread work on *)

FtStates  == {"IDLE", "PROCESSING", "TRANSFERRING"}
FtResults == {"INITIAL", "SUCCESS", "FAILURE", "ALREADY_EXISTS"}
FwStates  == {"IDLE", "DOWNLOADING", "DOWNLOADED"}
Types     == {"NONE", "FW", "FILE"}

FtWorkspaces == [state : FtStates, result : FtResults]
Workspaces   == [type : Types, url : Urls \cup {NoUrl}, size : BOOLEAN, whole : BOOLEAN]
Storages     == [ft : FtWorkspaces, fw : FwStates, ws : Workspaces]

Devs ==
  [info : Urls \cup {NoUrl}, ft : FtWorkspaces, fw : FwStates, ws : Workspaces,
   timer : BOOLEAN, status : {"OK", "ABORTED"}, handlers : BOOLEAN, passed : SUBSET Storages]

\* What a write to the storage, or the end of a handler, leaves alone
Same(d, e) ==
  /\ e \in Devs
  /\ e.info = d.info /\ e.ft = d.ft /\ e.fw = d.fw /\ e.ws = d.ws
  /\ e.timer = d.timer /\ e.status = d.status /\ e.handlers = d.handlers

LEMMA StoredFacts ==
  ASSUME NEW d \in Devs
  PROVE  Same(d, Stored(d))
<1>1. [ft |-> d.ft, fw |-> d.fw, ws |-> d.ws] \in Storages
  BY DEF Devs, Storages
<1> HIDE DEF Storages
<1>2. d.passed \cup {[ft |-> d.ft, fw |-> d.fw, ws |-> d.ws]} \in SUBSET Storages
  BY <1>1 DEF Devs
<1> QED
  BY <1>2 DEF Stored, Same, Devs

LEMMA DoneFacts ==
  ASSUME NEW d \in Devs, Done(d)
  PROVE  Same(d, dev')
  BY DEF Done, Same, Devs

\* What the power leaves of a handler is a storage, and no handlers
LEMMA TornFacts ==
  ASSUME NEW d \in Devs, Torn(d)
  PROVE  dev' \in Devs /\ dev'.handlers = FALSE /\ up' = FALSE
<1>1. PICK s \in d.passed : PowerLoss(Holding(d, s))
  BY DEF Torn
<1>2. s \in Storages
  BY DEF Devs
<1> DEFINE e == Holding(d, s)
<1>3. e \in Devs
  BY <1>2 DEF Devs, Storages, Holding
<1> HIDE DEF e
<1>4. dev' = Restarted(e) /\ up' = FALSE
  BY <1>1 DEF PowerLoss, e
<1> QED
  BY <1>3, <1>4 DEF Restarted, Devs

LEMMA CrashFacts ==
  ASSUME dev \in Devs, Crash
  PROVE  /\ dev' \in Devs /\ dev'.handlers = FALSE
         /\ dev'.ft = dev.ft /\ dev'.ws = dev.ws
         /\ pc' = "off" /\ up' = FALSE /\ files' = files
  BY DEF Crash, PowerLoss, Restarted, Devs

LEMMA SetStateFacts ==
  ASSUME NEW d \in Devs, NEW s \in FtStates
  PROVE  /\ SetState(d, s) \in Devs
         /\ SetState(d, s).ft.state = s /\ SetState(d, s).ft.result = d.ft.result
         /\ SetState(d, s).ws = d.ws /\ SetState(d, s).status = d.status
         /\ SetState(d, s).info = d.info /\ SetState(d, s).handlers = d.handlers
<1> DEFINE e == [d EXCEPT !.ft.state = s]
<1>1. /\ e \in Devs /\ e.ft.state = s /\ e.ft.result = d.ft.result
      /\ e.ws = d.ws /\ e.status = d.status /\ e.info = d.info /\ e.handlers = d.handlers
  BY DEF Devs, FtWorkspaces
<1> HIDE DEF e
<1> QED
  BY <1>1, StoredFacts DEF SetState, Same, e

LEMMA SetResultFacts ==
  ASSUME NEW d \in Devs, NEW r \in FtResults
  PROVE  /\ SetResult(d, r) \in Devs
         /\ SetResult(d, r).ft.state = d.ft.state /\ SetResult(d, r).ft.result = r
         /\ SetResult(d, r).ws = d.ws /\ SetResult(d, r).status = d.status
         /\ SetResult(d, r).info = d.info /\ SetResult(d, r).handlers = d.handlers
<1> DEFINE e == [d EXCEPT !.ft.result = r]
<1>1. /\ e \in Devs /\ e.ft.state = d.ft.state /\ e.ft.result = r
      /\ e.ws = d.ws /\ e.status = d.status /\ e.info = d.info /\ e.handlers = d.handlers
  BY DEF Devs, FtWorkspaces
<1> HIDE DEF e
<1> QED
  BY <1>1, StoredFacts DEF SetResult, Same, e

LEMMA SetFwStateFacts ==
  ASSUME NEW d \in Devs, NEW s \in FwStates
  PROVE  /\ SetFwState(d, s) \in Devs /\ SetFwState(d, s).ft = d.ft
         /\ SetFwState(d, s).ws = d.ws /\ SetFwState(d, s).status = d.status
         /\ SetFwState(d, s).info = d.info /\ SetFwState(d, s).handlers = d.handlers
<1> DEFINE e == [d EXCEPT !.fw = s]
<1>1. /\ e \in Devs /\ e.ft = d.ft /\ e.ws = d.ws /\ e.status = d.status
      /\ e.info = d.info /\ e.handlers = d.handlers
  BY DEF Devs
<1> HIDE DEF e
<1> QED
  BY <1>1, StoredFacts DEF SetFwState, Same, e

LEMMA DeleteFacts ==
  ASSUME NEW d \in Devs
  PROVE  /\ DeleteResumeInfo(d) \in Devs
         /\ DeleteResumeInfo(d).ws.url = NoUrl /\ DeleteResumeInfo(d).ws.type = d.ws.type
         /\ DeleteResumeInfo(d).ft = d.ft /\ DeleteResumeInfo(d).status = d.status
         /\ DeleteResumeInfo(d).info = d.info /\ DeleteResumeInfo(d).handlers = d.handlers
<1> DEFINE e == [d EXCEPT !.ws = NoDownload(d.ws.type)]
<1>1. NoDownload(d.ws.type) \in Workspaces /\ NoDownload(d.ws.type).url = NoUrl
      /\ NoDownload(d.ws.type).type = d.ws.type
  BY DEF NoDownload, Devs, Workspaces
<1>2. /\ e \in Devs /\ e.ws = NoDownload(d.ws.type) /\ e.ft = d.ft /\ e.status = d.status
      /\ e.info = d.info /\ e.handlers = d.handlers
  BY <1>1 DEF Devs
<1> HIDE DEF e
<1> QED
  BY <1>1, <1>2, StoredFacts DEF DeleteResumeInfo, Same, e

LEMMA AbortFacts ==
  ASSUME NEW d \in Devs
  PROVE  /\ AbortDownload(d) \in Devs
         /\ AbortDownload(d).ws.url = NoUrl /\ AbortDownload(d).ws.type = d.ws.type
         /\ AbortDownload(d).status = "ABORTED"
         /\ AbortDownload(d).ft = IF d.ws.type = "FILE" THEN [state |-> "IDLE", result |-> "FAILURE"]
                                                        ELSE d.ft
         /\ AbortDownload(d).info = d.info /\ AbortDownload(d).handlers = d.handlers
<1> DEFINE a == [d EXCEPT !.status = "ABORTED"]
           e == DeleteResumeInfo(a)
<1>1. a \in Devs /\ a.status = "ABORTED" /\ a.ws = d.ws /\ a.ft = d.ft /\ a.info = d.info
      /\ a.handlers = d.handlers
  BY DEF Devs
<1>2. /\ e \in Devs /\ e.ws.url = NoUrl /\ e.ws.type = d.ws.type /\ e.ft = d.ft
      /\ e.status = "ABORTED" /\ e.info = d.info /\ e.handlers = d.handlers
  BY <1>1, DeleteFacts
<1> HIDE DEF e
<1>3. CASE d.ws.type = "FILE"
  <2>1. "IDLE" \in FtStates /\ "FAILURE" \in FtResults
    BY DEF FtStates, FtResults
  <2>2. SetState(e, "IDLE") \in Devs
    BY <1>2, <2>1, SetStateFacts
  <2>3. AbortDownload(d) = SetResult(SetState(e, "IDLE"), "FAILURE")
    BY <1>3 DEF AbortDownload, e
  <2>4. AbortDownload(d) \in Devs /\ AbortDownload(d).ft.state = "IDLE"
        /\ AbortDownload(d).ft.result = "FAILURE"
    BY <1>2, <2>1, <2>2, <2>3, SetStateFacts, SetResultFacts
  <2>5. AbortDownload(d).ft = [state |-> "IDLE", result |-> "FAILURE"]
    BY <2>4 DEF Devs, FtWorkspaces
  <2> QED
    BY <1>2, <1>3, <2>1, <2>2, <2>3, <2>4, <2>5, SetStateFacts, SetResultFacts
<1>4. CASE d.ws.type # "FILE"
  <2>1. AbortDownload(d) = SetFwState(e, "IDLE") /\ "IDLE" \in FwStates
    BY <1>4 DEF AbortDownload, e, FwStates
  <2> QED
    BY <1>2, <1>4, <2>1, SetFwStateFacts
<1> QED
  BY <1>3, <1>4

LEMMA InitializeFacts ==
  ASSUME NEW d \in Devs, NEW u \in Urls, NEW type \in {"FW", "FILE"}
  PROVE  /\ InitializeDownload(d, type, u) \in Devs
         /\ InitializeDownload(d, type, u).ws.url = u
         /\ InitializeDownload(d, type, u).ws.type = d.ws.type
         /\ InitializeDownload(d, type, u).status = d.status
         /\ InitializeDownload(d, type, u).ft =
              IF type = "FILE" THEN [state |-> "PROCESSING", result |-> "INITIAL"] ELSE d.ft
         /\ InitializeDownload(d, type, u).info = d.info
         /\ InitializeDownload(d, type, u).handlers = d.handlers
<1> DEFINE e == IF type = "FILE" THEN SetResult(SetState(d, "PROCESSING"), "INITIAL")
                               ELSE [d EXCEPT !.fw = "IDLE"]
           f == [e EXCEPT !.ws.url = u, !.timer = TRUE]
<1>1. /\ e \in Devs /\ e.ws = d.ws /\ e.status = d.status
      /\ e.ft = IF type = "FILE" THEN [state |-> "PROCESSING", result |-> "INITIAL"] ELSE d.ft
      /\ e.info = d.info /\ e.handlers = d.handlers
  <2>1. CASE type = "FILE"
    <3>1. "PROCESSING" \in FtStates /\ "INITIAL" \in FtResults
      BY DEF FtStates, FtResults
    <3>2. SetState(d, "PROCESSING") \in Devs
      BY <3>1, SetStateFacts
    <3>3. e = SetResult(SetState(d, "PROCESSING"), "INITIAL")
      BY <2>1
    <3> HIDE DEF e
    <3>4. /\ e \in Devs /\ e.ft.state = "PROCESSING" /\ e.ft.result = "INITIAL" /\ e.ws = d.ws
          /\ e.status = d.status /\ e.info = d.info /\ e.handlers = d.handlers
      BY <3>1, <3>2, <3>3, SetStateFacts, SetResultFacts
    <3>5. e.ft = [state |-> "PROCESSING", result |-> "INITIAL"]
      BY <3>4 DEF Devs, FtWorkspaces
    <3> QED
      BY <2>1, <3>4, <3>5
  <2>2. CASE type # "FILE"
    BY <2>2 DEF Devs, FwStates
  <2> QED
    BY <2>1, <2>2
<1>2. InitializeDownload(d, type, u) = Stored(f)
  BY DEF InitializeDownload
<1> HIDE DEF e
<1>3. f \in Devs /\ f.ws.url = u /\ f.ws.type = e.ws.type
  BY <1>1 DEF Devs, Workspaces
<1>4. f.ft = e.ft /\ f.status = e.status /\ f.info = e.info /\ f.handlers = e.handlers
  BY <1>1 DEF Devs
<1> HIDE DEF f
<1>5. Same(f, Stored(f))
  BY <1>3, StoredFacts
<1> QED
  BY <1>1, <1>2, <1>3, <1>4, <1>5 DEF Same

\* What a package URI makes of d: the download of another one is aborted
UriStored(d, e, type, u) ==
  /\ e \in Devs /\ e.ws.type = type /\ e.ws.url = u
  /\ e.ft = IF type = "FW" THEN d.ft
            ELSE [state |-> IF u = NoUrl THEN "IDLE" ELSE "PROCESSING",
                  result |-> IF u = NoUrl THEN "FAILURE" ELSE "INITIAL"]
  /\ \/ e.status = "ABORTED"
     \/ e.status = d.status /\ (d.ws.url = NoUrl \/ (type = "FW" /\ u = d.ws.url))
  /\ e.info = d.info /\ e.handlers = d.handlers

LEMMA UriFacts ==
  ASSUME NEW d \in Devs, NEW u \in Urls \cup {NoUrl}, NEW type \in {"FW", "FILE"}
  PROVE  UriStored(d, SetUpdatePackageUri(d, type, u), type, u)
<1> DEFINE v == [d EXCEPT !.ws.type = type]
           t == Stored(v)
           a == IF t.ws.url # NoUrl THEN AbortDownload(t) ELSE t
           x == DeleteResumeInfo(a)
           e == SetUpdatePackageUri(d, type, u)
<1>1. /\ t \in Devs /\ t.ws.type = type /\ t.ws.url = d.ws.url /\ t.ft = d.ft
      /\ t.status = d.status /\ t.info = d.info /\ t.handlers = d.handlers
  <2>1. /\ v \in Devs /\ v.ws.type = type /\ v.ws.url = d.ws.url /\ v.ft = d.ft
        /\ v.status = d.status /\ v.info = d.info /\ v.handlers = d.handlers
    BY DEF Devs, Workspaces, Types
  <2> HIDE DEF v
  <2>2. Same(v, t)
    BY <2>1, StoredFacts
  <2> QED
    BY <2>1, <2>2 DEF Same
<1> HIDE DEF t
<1>2. CASE u = NoUrl
  <2>1. e = AbortDownload(t)
    BY <1>2 DEF SetUpdatePackageUri, t, v
  <2> HIDE DEF e
  <2>2. /\ e \in Devs /\ e.ws.url = NoUrl /\ e.ws.type = type /\ e.status = "ABORTED"
        /\ e.ft = IF type = "FILE" THEN [state |-> "IDLE", result |-> "FAILURE"] ELSE d.ft
        /\ e.info = d.info /\ e.handlers = d.handlers
    BY <1>1, <2>1, AbortFacts
  <2> QED
    BY <1>2, <2>2 DEF e, UriStored
<1>3. CASE u # NoUrl /\ type = "FW" /\ u = t.ws.url
  <2>1. e = t
    BY <1>3 DEF SetUpdatePackageUri, t, v
  <2> HIDE DEF e
  <2> QED
    BY <1>1, <1>3, <2>1 DEF e, UriStored
<1>4. CASE u # NoUrl /\ ~(type = "FW" /\ u = t.ws.url)
  <2>1. e = InitializeDownload(x, type, u)
    BY <1>4 DEF SetUpdatePackageUri, t, v
  <2>2. /\ a \in Devs /\ a.ws.type = type /\ a.info = d.info /\ a.handlers = d.handlers
        /\ type = "FW" => a.ft = d.ft
        /\ a.status = "ABORTED" \/ (a.status = d.status /\ d.ws.url = NoUrl)
    BY <1>1, AbortFacts
  <2> HIDE DEF e, a
  <2>3. /\ x \in Devs /\ x.ws.type = type /\ x.info = d.info /\ x.handlers = d.handlers
        /\ x.status = a.status /\ x.ft = a.ft
    BY <2>2, DeleteFacts
  <2> HIDE DEF x
  <2>4. u \in Urls
    BY <1>4
  <2>5. /\ e \in Devs /\ e.ws.url = u /\ e.ws.type = type /\ e.status = a.status
        /\ e.ft = IF type = "FILE" THEN [state |-> "PROCESSING", result |-> "INITIAL"] ELSE a.ft
        /\ e.info = d.info /\ e.handlers = d.handlers
    BY <2>1, <2>3, <2>4, InitializeFacts
  <2> QED
    BY <1>4, <2>2, <2>5 DEF e, UriStored
<1> QED
  BY <1>2, <1>3, <1>4

----------------------------------------------------------------------------
(* The result of a transfer *)

\* What a handler makes of d: an idle object has a result, or was not touched
Told(d, e) == e.ft.state = "IDLE" => e.ft = d.ft \/ e.ft.result # "INITIAL"

LEMMA ToldTransitive ==
  ASSUME NEW d, NEW e, NEW f, Told(d, e), Told(e, f)
  PROVE  Told(d, f)
  BY DEF Told

LEMMA FailureFacts ==
  ASSUME NEW d \in Devs, NEW answer
  PROVE  LET e == PreOperationFailure(d, answer)
         IN /\ e \in Devs /\ e.ft.state = d.ft.state /\ e.ft.result # "INITIAL"
            /\ e.ws = d.ws /\ e.status = d.status /\ e.info = d.info /\ e.handlers = d.handlers
<1> DEFINE r == IF answer = "exists" THEN "ALREADY_EXISTS" ELSE "FAILURE"
<1>1. r \in FtResults /\ r # "INITIAL"
  BY DEF FtResults
<1>2. PreOperationFailure(d, answer) = SetResult(d, r)
  BY DEF PreOperationFailure
<1> HIDE DEF r
<1> QED
  BY <1>1, <1>2, SetResultFacts

LEMMA WriteTold ==
  ASSUME NEW d \in Devs, NEW w \in Writes
  PROVE  WriteResource(d, w) \in Devs /\ Told(d, WriteResource(d, w))
<1> DEFINE h == IF w.rid = "NAME" THEN [d EXCEPT !.handlers = TRUE] ELSE d
           e == WriteResource(d, w)
<1>1. h \in Devs /\ h.ft = d.ft
  BY DEF Devs
<1> HIDE DEF h
<1>2. CASE w.value = "bad"
  <2>1. e = PreOperationFailure(h, "refused")
    BY <1>2 DEF WriteResource, h
  <2> HIDE DEF e
  <2>2. e \in Devs /\ e.ft.result # "INITIAL"
    BY <1>1, <2>1, FailureFacts
  <2> QED
    BY <2>2 DEF Told, e
<1>3. CASE w.value # "bad" /\ w.rid = "URI" /\ w.value = NoUrl
  <2>1. e = SetUpdatePackageUri(h, "FILE", NoUrl)
    BY <1>3 DEF WriteResource, h
  <2> HIDE DEF e
  <2>2. e \in Devs /\ e.ft = [state |-> "IDLE", result |-> "FAILURE"]
    BY <1>1, <2>1, UriFacts DEF UriStored
  <2> QED
    BY <2>2 DEF Told, e
<1>4. CASE w.value # "bad" /\ w.rid = "URI" /\ w.value # NoUrl
  <2>1. e = [h EXCEPT !.info = w.value]
    BY <1>4 DEF WriteResource, h
  <2>2. w.value \in Urls
    BY <1>4 DEF Writes
  <2> HIDE DEF e
  <2>3. e \in Devs /\ e.ft = d.ft
    BY <1>1, <2>1, <2>2 DEF Devs
  <2> QED
    BY <2>3 DEF Told, e
<1>5. CASE w.value # "bad" /\ w.rid = "PACKAGE"
  <2>1. e = SetUpdatePackageUri(h, "FW", w.value)
    BY <1>5 DEF WriteResource, h
  <2>2. w.value \in Urls \cup {NoUrl}
    BY <1>5 DEF Writes
  <2> HIDE DEF e
  <2>3. e \in Devs /\ e.ft = d.ft
    BY <1>1, <2>1, <2>2, UriFacts DEF UriStored
  <2> QED
    BY <2>3 DEF Told, e
<1>6. CASE w.value # "bad" /\ w.rid \notin {"URI", "PACKAGE"}
  <2>1. e = h
    BY <1>6 DEF WriteResource, h
  <2> HIDE DEF e
  <2> QED
    BY <1>1, <2>1 DEF Told, e
<1> QED
  BY <1>2, <1>3, <1>4, <1>5, <1>6

LEMMA CommandFacts ==
  ASSUME NEW command \in Commands
  PROVE  /\ Len(command) = 1 /\ command[1] \in Writes /\ DOMAIN command = {1}
         \/ /\ Len(command) = 2 /\ command[1] \in Writes /\ command[2] \in Writes
            /\ DOMAIN command = {1, 2}
  BY DEF Commands

LEMMA WriteCbTold ==
  ASSUME NEW d \in Devs, NEW command \in Commands
  PROVE  WriteCb(d, command) \in Devs /\ Told(d, WriteCb(d, command))
<1> DEFINE e == WriteResource(d, command[1])
           f == WriteResource(e, command[2])
<1>1. e \in Devs /\ Told(d, e)
  BY CommandFacts, WriteTold
<1>2. CASE command[1].value = "bad" \/ Len(command) = 1
  BY <1>1, <1>2 DEF WriteCb
<1>3. CASE ~(command[1].value = "bad" \/ Len(command) = 1)
  <2> HIDE DEF e
  <2>1. f \in Devs /\ Told(e, f)
    BY <1>1, <1>3, CommandFacts, WriteTold
  <2>2. WriteCb(d, command) = f
    BY <1>3 DEF WriteCb, e
  <2> HIDE DEF f
  <2>3. Told(d, f)
    BY <1>1, <2>1, ToldTransitive
  <2> QED
    BY <2>1, <2>2, <2>3
<1> QED
  BY <1>2, <1>3

AnswerKinds == {"ok", "present", "refused", "exists"}

LEMMA TreatFacts ==
  ASSUME NEW d \in Devs, NEW answer \in AnswerKinds
  PROVE  LET e == TreatInfo(d, answer)
         IN /\ e \in Devs /\ e.handlers = d.handlers /\ e.info = d.info
            /\ answer = "ok" =>
                 /\ e.ws.type = "FILE" /\ e.ws.url = d.info /\ e.ft.state = "PROCESSING"
                 /\ e.status = "ABORTED" \/ (e.status = d.status /\ d.ws.url = NoUrl)
            /\ answer = "present" => e = d
            /\ answer \in {"refused", "exists"} =>
                 /\ e.ft.state = "IDLE" /\ e.ft.result # "INITIAL"
                 /\ e.ws = d.ws /\ e.status = d.status
<1> DEFINE i == SetState(d, "IDLE")
           e == TreatInfo(d, answer)
<1>1. "IDLE" \in FtStates /\ "PROCESSING" \in FtStates
  BY DEF FtStates
<1>2. /\ i \in Devs /\ i.ws = d.ws /\ i.status = d.status /\ i.info = d.info
      /\ i.handlers = d.handlers /\ i.ft.state = "IDLE"
  BY <1>1, SetStateFacts
<1>3. CASE answer = "ok"
  <2> DEFINE x == SetUpdatePackageUri(i, "FILE", d.info)
  <2>1. e = SetState(x, "PROCESSING")
    BY <1>3 DEF TreatInfo
  <2>2. d.info \in Urls \cup {NoUrl}
    BY DEF Devs
  <2> HIDE DEF i
  <2>3. UriStored(i, x, "FILE", d.info)
    BY <1>2, <2>2, UriFacts
  <2>4. /\ x \in Devs /\ x.ws.type = "FILE" /\ x.ws.url = d.info
        /\ x.status = "ABORTED" \/ (x.status = i.status /\ i.ws.url = NoUrl)
        /\ x.info = i.info /\ x.handlers = i.handlers
    BY <2>3 DEF UriStored
  <2> HIDE DEF x, e
  <2>5. /\ e \in Devs /\ e.ft.state = "PROCESSING" /\ e.ws = x.ws /\ e.status = x.status
        /\ e.info = x.info /\ e.handlers = x.handlers
    BY <1>1, <2>1, <2>4, SetStateFacts
  <2> QED
    BY <1>2, <1>3, <2>4, <2>5 DEF e
<1>4. CASE answer = "present"
  BY <1>4 DEF TreatInfo
<1>5. CASE answer \in {"refused", "exists"}
  <2> DEFINE f == PreOperationFailure(i, answer)
  <2>1. e = [f EXCEPT !.timer = FALSE]
    BY <1>5 DEF TreatInfo
  <2> HIDE DEF i
  <2>2. /\ f \in Devs /\ f.ft.state = "IDLE" /\ f.ft.result # "INITIAL"
        /\ f.ws = d.ws /\ f.status = d.status /\ f.info = d.info /\ f.handlers = d.handlers
    BY <1>2, FailureFacts
  <2> HIDE DEF f, e
  <2>3. e \in Devs
    BY <2>1, <2>2 DEF Devs
  <2>4. /\ e.ft = f.ft /\ e.ws = f.ws /\ e.status = f.status /\ e.info = f.info
        /\ e.handlers = f.handlers
    BY <2>1, <2>2 DEF Devs
  <2> QED
    BY <1>5, <2>2, <2>3, <2>4 DEF e
<1> QED
  BY <1>3, <1>4, <1>5 DEF AnswerKinds

LEMMA CheckFacts ==
  ASSUME NEW d \in Devs
  PROVE  LET e == CheckFileTransferPossible(d)
         IN /\ e \in Devs
            /\ IF Cardinality(listed) = MaxFiles
                 THEN /\ e.ws.url = NoUrl /\ e.ws.type = d.ws.type /\ e.status = d.status
                      /\ e.ft.state = "IDLE" /\ e.ft.result # "INITIAL"
                      /\ e.info = d.info /\ e.handlers = d.handlers
                 ELSE e = d
<1> DEFINE e == CheckFileTransferPossible(d)
           x == DeleteResumeInfo(d)
           y == SetState(x, "IDLE")
           z == SetResult(y, "FAILURE")
<1>1. CASE Cardinality(listed) = MaxFiles
  <2>1. e = [z EXCEPT !.timer = FALSE]
    BY <1>1 DEF CheckFileTransferPossible
  <2>2. "IDLE" \in FtStates /\ "FAILURE" \in FtResults
    BY DEF FtStates, FtResults
  <2>3. /\ x \in Devs /\ x.ws.url = NoUrl /\ x.ws.type = d.ws.type /\ x.status = d.status
        /\ x.info = d.info /\ x.handlers = d.handlers
    BY DeleteFacts
  <2> HIDE DEF x
  <2>4. /\ y \in Devs /\ y.ft.state = "IDLE" /\ y.ws = x.ws /\ y.status = x.status
        /\ y.info = x.info /\ y.handlers = x.handlers
    BY <2>2, <2>3, SetStateFacts
  <2> HIDE DEF y
  <2>5. /\ z \in Devs /\ z.ft.state = "IDLE" /\ z.ft.result = "FAILURE" /\ z.ws = x.ws
        /\ z.status = x.status /\ z.info = x.info /\ z.handlers = x.handlers
    BY <2>2, <2>4, SetResultFacts
  <2> HIDE DEF z, e
  <2>6. e \in Devs
    BY <2>1, <2>5 DEF Devs
  <2>7. /\ e.ft = z.ft /\ e.ws = z.ws /\ e.status = z.status /\ e.info = z.info
        /\ e.handlers = z.handlers
    BY <2>1, <2>5 DEF Devs
  <2> QED
    BY <1>1, <2>3, <2>5, <2>6, <2>7 DEF e
<1>2. CASE Cardinality(listed) # MaxFiles
  BY <1>2 DEF CheckFileTransferPossible
<1> QED
  BY <1>1, <1>2

LEMMA CommandEndTold ==
  ASSUME NEW d \in Devs, NEW succeeds, NEW answer \in AnswerKinds
  PROVE  CommandEnd(d, succeeds, answer) \in Devs /\ Told(d, CommandEnd(d, succeeds, answer))
<1>1. CASE d.handlers /\ succeeds
  <2>1. CommandEnd(d, succeeds, answer) = TreatInfo(d, answer)
    BY <1>1 DEF CommandEnd
  <2> QED
    BY <2>1, TreatFacts DEF Told, AnswerKinds
<1>2. CASE ~(d.handlers /\ succeeds)
  BY <1>2 DEF CommandEnd, Told
<1> QED
  BY <1>1, <1>2

LEMMA PostRequestTold ==
  ASSUME NEW d \in Devs, NEW succeeds
  PROVE  PostRequest(d, succeeds) \in Devs /\ Told(d, PostRequest(d, succeeds))
<1> DEFINE c == IF d.handlers /\ succeeds THEN CheckFileTransferPossible(d) ELSE d
           e == [c EXCEPT !.handlers = FALSE]
<1>1. c \in Devs /\ Told(d, c)
  BY CheckFacts DEF Told
<1>2. PostRequest(d, succeeds) = e
  BY DEF PostRequest
<1> HIDE DEF c
<1>3. e \in Devs /\ e.ft = c.ft
  BY <1>1 DEF Devs
<1> HIDE DEF e
<1> QED
  BY <1>1, <1>2, <1>3 DEF Told

\* The end of a transfer of a type, or of one that did not start
EndStored(d, e, type) ==
  /\ e \in Devs /\ e.ws.type = d.ws.type /\ e.ws.url = NoUrl
  /\ IF type = "FILE" THEN e.ft.state = "IDLE" /\ e.ft.result # "INITIAL" ELSE e.ft = d.ft
  /\ e.status = d.status /\ e.info = d.info /\ e.handlers = d.handlers

LEMMA EndFacts ==
  ASSUME NEW d \in Devs, NEW type, NEW succeeds \in BOOLEAN
  PROVE  EndStored(d, PkgDwlEnd(d, type, succeeds), type)
<1> DEFINE y == CASE type # "FILE" -> SetFwState(d, IF succeeds THEN "DOWNLOADED" ELSE "IDLE")
                  [] type = "FILE" /\ succeeds -> SetResult(SetState(d, "IDLE"), "SUCCESS")
                  [] OTHER -> SetState(SetResult(d, "FAILURE"), "IDLE")
           e == PkgDwlEnd(d, type, succeeds)
<1>1. "IDLE" \in FtStates /\ "SUCCESS" \in FtResults /\ "FAILURE" \in FtResults
  BY DEF FtStates, FtResults
<1>2. /\ y \in Devs /\ y.ws = d.ws /\ y.status = d.status
      /\ y.info = d.info /\ y.handlers = d.handlers
      /\ IF type = "FILE" THEN y.ft.state = "IDLE" /\ y.ft.result # "INITIAL" ELSE y.ft = d.ft
  <2>1. CASE type # "FILE"
    <3> DEFINE s == IF succeeds THEN "DOWNLOADED" ELSE "IDLE"
    <3>1. s \in FwStates /\ y = SetFwState(d, s)
      BY <2>1 DEF FwStates
    <3> HIDE DEF y, s
    <3> QED
      BY <2>1, <3>1, SetFwStateFacts
  <2>2. CASE type = "FILE" /\ succeeds
    <3> DEFINE x == SetState(d, "IDLE")
    <3>1. y = SetResult(x, "SUCCESS")
      BY <2>2
    <3>2. /\ x \in Devs /\ x.ft.state = "IDLE" /\ x.ws = d.ws /\ x.status = d.status
          /\ x.info = d.info /\ x.handlers = d.handlers
      BY <1>1, SetStateFacts
    <3> HIDE DEF x, y
    <3> QED
      BY <1>1, <2>2, <3>1, <3>2, SetResultFacts
  <2>3. CASE type = "FILE" /\ ~succeeds
    <3> DEFINE x == SetResult(d, "FAILURE")
    <3>1. y = SetState(x, "IDLE")
      BY <2>3
    <3>2. /\ x \in Devs /\ x.ft.result = "FAILURE" /\ x.ws = d.ws /\ x.status = d.status
          /\ x.info = d.info /\ x.handlers = d.handlers
      BY <1>1, SetResultFacts
    <3> HIDE DEF x, y
    <3> QED
      BY <1>1, <2>3, <3>1, <3>2, SetStateFacts
  <2> QED
    BY <2>1, <2>2, <2>3
<1>3. e = DeleteResumeInfo(y)
  BY DEF PkgDwlEnd
<1> HIDE DEF y, e
<1>4. /\ e \in Devs /\ e.ws.url = NoUrl /\ e.ws.type = y.ws.type /\ e.ft = y.ft
      /\ e.status = y.status /\ e.info = y.info /\ e.handlers = y.handlers
  BY <1>2, <1>3, DeleteFacts
<1> QED
  BY <1>2, <1>4 DEF EndStored, e

LEMMA EndDone ==
  ASSUME NEW d \in Devs, NEW type, NEW succeeds \in BOOLEAN, Done(PkgDwlEnd(d, type, succeeds))
  PROVE  EndStored(d, dev', type)
<1> DEFINE e == PkgDwlEnd(d, type, succeeds)
<1>1. EndStored(d, e, type)
  BY EndFacts
<1> HIDE DEF e
<1>2. Same(e, dev')
  BY <1>1, DoneFacts DEF EndStored, e
<1> QED
  BY <1>1, <1>2 DEF EndStored, Same

LEMMA NotStartedFacts ==
  ASSUME NEW d \in Devs
  PROVE  EndStored(d, NotStarted(d), d.ws.type)
<1> DEFINE e == NotStarted(d)
<1>1. CASE d.ws.type = "FILE"
  <2> DEFINE x == SetState(d, "IDLE")
             y == SetResult(x, "FAILURE")
  <2>1. e = DeleteResumeInfo(y)
    BY <1>1 DEF NotStarted
  <2>2. "IDLE" \in FtStates /\ "FAILURE" \in FtResults
    BY DEF FtStates, FtResults
  <2>3. /\ x \in Devs /\ x.ft.state = "IDLE" /\ x.ws = d.ws /\ x.status = d.status
        /\ x.info = d.info /\ x.handlers = d.handlers
    BY <2>2, SetStateFacts
  <2> HIDE DEF x
  <2>4. /\ y \in Devs /\ y.ft.state = "IDLE" /\ y.ft.result = "FAILURE" /\ y.ws = d.ws
        /\ y.status = d.status /\ y.info = d.info /\ y.handlers = d.handlers
    BY <2>2, <2>3, SetResultFacts
  <2> HIDE DEF y, e
  <2>5. /\ e \in Devs /\ e.ws.url = NoUrl /\ e.ws.type = y.ws.type /\ e.ft = y.ft
        /\ e.status = y.status /\ e.info = y.info /\ e.handlers = y.handlers
    BY <2>1, <2>4, DeleteFacts
  <2> QED
    BY <1>1, <2>4, <2>5 DEF EndStored, e
<1>2. CASE d.ws.type # "FILE"
  <2>1. e = DeleteResumeInfo(d)
    BY <1>2 DEF NotStarted
  <2> HIDE DEF e
  <2>2. /\ e \in Devs /\ e.ws.url = NoUrl /\ e.ws.type = d.ws.type /\ e.ft = d.ft
        /\ e.status = d.status /\ e.info = d.info /\ e.handlers = d.handlers
    BY <2>1, DeleteFacts
  <2> QED
    BY <1>2, <2>2 DEF EndStored, e
<1> QED
  BY <1>1, <1>2

\* The answers about the size after which an idle object has its result
LEMMA SizeFacts ==
  ASSUME NEW d \in Devs, NEW answer \in {"size", "notFound", "half"}
  PROVE  LET e == GetPackageSize(d, answer)
         IN /\ answer = "size" =>
                 /\ e \in Devs /\ e.ws.type = d.ws.type /\ e.ws.url = d.ws.url /\ e.ft = d.ft
                 /\ e.status = d.status /\ e.info = d.info /\ e.handlers = d.handlers
            /\ answer = "half" => e \in Devs /\ e.ft = d.ft
            /\ answer = "notFound" => EndStored(d, e, d.ws.type)
<1> DEFINE e == GetPackageSize(d, answer)
<1>1. CASE answer = "size"
  <2>1. e = [d EXCEPT !.ws.size = TRUE]
    BY <1>1 DEF GetPackageSize
  <2> HIDE DEF e
  <2>2. e \in Devs
    BY <2>1 DEF Devs, Workspaces
  <2>3. /\ e.ws.type = d.ws.type /\ e.ws.url = d.ws.url /\ e.ft = d.ft
        /\ e.status = d.status /\ e.info = d.info /\ e.handlers = d.handlers
    BY <2>1 DEF Devs, Workspaces
  <2> QED
    BY <1>1, <2>2, <2>3 DEF e
<1>2. CASE answer = "half"
  <2>1. e = DeleteResumeInfo(d)
    BY <1>2 DEF GetPackageSize
  <2> HIDE DEF e
  <2> QED
    BY <1>2, <2>1, DeleteFacts DEF e
<1>3. CASE answer = "notFound"
  <2>1. e = NotStarted(d)
    BY <1>3 DEF GetPackageSize
  <2> HIDE DEF e
  <2> QED
    BY <1>3, <2>1, NotStartedFacts DEF e
<1> QED
  BY <1>1, <1>2, <1>3

\* A handler that makes e of dev, and runs to its end or not
LEMMA LeftTold ==
  ASSUME NEW d, NEW e \in Devs, Told(d, e), Done(e) \/ Torn(e)
  PROVE  dev' \in Devs /\ (up' => Told(d, dev'))
<1>1. CASE Done(e)
  BY <1>1, DoneFacts DEF Told, Same
<1>2. CASE Torn(e)
  BY <1>2, TornFacts
<1> QED
  BY <1>1, <1>2

LEMMA EndTold ==
  ASSUME dev \in Devs, NEW type, NEW succeeds \in BOOLEAN,
         \/ Done(PkgDwlEnd(dev, type, succeeds))
         \/ Torn(PkgDwlEnd(dev, type, succeeds))
  PROVE  dev' \in Devs /\ (up' => Told(dev, dev'))
<1> DEFINE e == PkgDwlEnd(dev, type, succeeds)
<1>1. EndStored(dev, e, type) /\ (Done(e) \/ Torn(e))
  BY EndFacts
<1> HIDE DEF e
<1>2. e \in Devs /\ Told(dev, e)
  BY <1>1 DEF EndStored, Told
<1> QED
  BY <1>1, <1>2, LeftTold

LEMMA CommandTold ==
  ASSUME NEW command \in Commands, dev \in Devs, Command(command)
  PROVE  dev' \in Devs /\ (up' => Told(dev, dev'))
<1> DEFINE d == WriteCb(dev, command)
           s == Succeeds(command)
<1>1. PICK answer \in Answers(d), counts \in BOOLEAN :
        LET f == PostRequest(CommandEnd(d, s, answer), s /\ (answer = "ok" \/ counts))
        IN Done(f) \/ Torn(f)
  BY DEF Command
<1>2. answer \in AnswerKinds
  BY DEF Answers, AnswerKinds
<1>3. d \in Devs /\ Told(dev, d)
  BY WriteCbTold
<1> HIDE DEF d, s
<1> DEFINE e == CommandEnd(d, s, answer)
           f == PostRequest(e, s /\ (answer = "ok" \/ counts))
<1>4. e \in Devs /\ Told(d, e)
  BY <1>2, <1>3, CommandEndTold
<1>5. Done(f) \/ Torn(f)
  BY <1>1
<1> HIDE DEF e
<1>6. f \in Devs /\ Told(e, f)
  BY <1>4, PostRequestTold
<1> HIDE DEF f
<1>7. Told(dev, f)
  BY <1>3, <1>4, <1>6, ToldTransitive
<1> QED
  BY <1>5, <1>6, <1>7, LeftTold

LEMMA StartTold ==
  ASSUME dev \in Devs, Start
  PROVE  dev' \in Devs /\ (up' => Told(dev, dev'))
<1> DEFINE i == SetResult(dev, "INITIAL")
           t == SetState(i, "TRANSFERRING")
           d == IF dev.ws.type = "FILE" THEN t ELSE SetFwState(dev, "DOWNLOADING")
           x == PkgDwlEnd(d, dev.ws.type, FALSE)
           o == [d EXCEPT !.status = "OK"]
<1>1. "INITIAL" \in FtResults /\ "TRANSFERRING" \in FtStates /\ "DOWNLOADING" \in FwStates
  BY DEF FtStates, FtResults, FwStates
<1>2. i \in Devs
  BY <1>1, SetResultFacts
<1>3. \/ Done(x) \/ Torn(x)
      \/ Done(o) \/ Torn(o)
  BY DEF Start
<1> HIDE DEF i
<1>4. t \in Devs /\ t.ft.state = "TRANSFERRING"
  BY <1>1, <1>2, SetStateFacts
<1> HIDE DEF t
<1>5. d \in Devs /\ IF dev.ws.type = "FILE" THEN d.ft.state = "TRANSFERRING" ELSE d.ft = dev.ft
  BY <1>1, <1>4, SetFwStateFacts
<1> HIDE DEF d
<1>6. x \in Devs /\ Told(dev, x)
  <2>1. EndStored(d, x, dev.ws.type)
    BY <1>5, EndFacts
  <2> HIDE DEF x
  <2> QED
    BY <1>5, <2>1 DEF EndStored, Told
<1>7. o \in Devs /\ Told(dev, o)
  <2>1. o \in Devs /\ o.ft = d.ft
    BY <1>5 DEF Devs
  <2> HIDE DEF o
  <2> QED
    BY <1>5, <2>1 DEF Told
<1> HIDE DEF x, o
<1> QED
  BY <1>3, <1>6, <1>7, LeftTold

LEMMA ToldStep ==
  ASSUME "noAnswer" \notin Deviations, dev \in Devs, [Next]_vars
  PROVE  dev' \in Devs /\ (up' => Told(dev, dev'))
<1>1. ASSUME NEW command \in Commands, Command(command)
      PROVE  dev' \in Devs /\ (up' => Told(dev, dev'))
  BY <1>1, CommandTold
<1>2. ASSUME NEW command \in Commands, CommandElsewhere(command)
      PROVE  dev' \in Devs /\ (up' => Told(dev, dev'))
  <2> DEFINE d == WriteCb(dev, command)
  <2>1. Done(d) \/ Torn(d)
    BY <1>2 DEF CommandElsewhere
  <2>2. d \in Devs /\ Told(dev, d)
    BY WriteCbTold
  <2> HIDE DEF d
  <2> QED
    BY <2>1, <2>2, LeftTold
<1>3. CASE PackageDownloadHandler
  <2> DEFINE d == [dev EXCEPT !.timer = FALSE,
                              !.status = IF dev.ws.url = NoUrl THEN @ ELSE "OK"]
  <2>1. PICK answer \in Sizes(dev) :
          Done(GetPackageSize(d, answer)) \/ Torn(GetPackageSize(d, answer))
    BY <1>3 DEF PackageDownloadHandler
  <2>2. answer \in {"size", "notFound", "half"}
    BY DEF Sizes
  <2>3. d \in Devs /\ d.ft = dev.ft
    BY DEF Devs
  <2> HIDE DEF d
  <2> DEFINE e == GetPackageSize(d, answer)
  <2>4. e \in Devs /\ Told(dev, e)
    BY <2>2, <2>3, SizeFacts DEF EndStored, Told
  <2>5. Done(e) \/ Torn(e)
    BY <2>1
  <2> HIDE DEF e
  <2> QED
    BY <2>4, <2>5, LeftTold
<1>4. CASE Start
  BY <1>4, StartTold
<1>5. CASE Received
  <2>1. CASE \E succeeds \in BOOLEAN : \/ Done(PkgDwlEnd(dev, kind, succeeds))
                                       \/ Torn(PkgDwlEnd(dev, kind, succeeds))
    BY <2>1, EndTold
  <2>2. CASE dev' = [dev EXCEPT !.ws.whole = TRUE]
    BY <2>2 DEF Devs, Workspaces, Told
  <2> QED
    BY <1>5, <2>1, <2>2 DEF Received
<1>6. CASE HandlePackageDownloader \/ TransferBreaks
  <2>1. \/ UNCHANGED dev
        \/ \E succeeds \in BOOLEAN : \/ Done(PkgDwlEnd(dev, kind, succeeds))
                                     \/ Torn(PkgDwlEnd(dev, kind, succeeds))
    BY <1>6 DEF HandlePackageDownloader, TransferBreaks
  <2>2. CASE UNCHANGED dev
    BY <2>2 DEF Told
  <2> QED
    BY <2>1, <2>2, EndTold
<1>7. CASE Register
  <2>1. UNCHANGED dev \/ dev' = [dev EXCEPT !.timer = TRUE]
    BY <1>7 DEF Register
  <2> QED
    BY <2>1 DEF Devs, Told
<1>8. CASE Crash
  BY <1>8, CrashFacts DEF Told
<1>9. CASE Stop \/ DeleteFile \/ ClientDeletes \/ UNCHANGED vars
  BY <1>9 DEF Stop, DeleteFile, ClientDeletes, vars, Told
<1> QED
  BY <1>1, <1>2, <1>3, <1>4, <1>5, <1>6, <1>7, <1>8, <1>9 DEF Next

LEMMA DevsInit == Init => dev \in Devs
<1> SUFFICES ASSUME Init PROVE dev \in Devs
  OBVIOUS
<1>1. "IDLE" \in FtStates /\ "INITIAL" \in FtResults /\ "IDLE" \in FwStates /\ "NONE" \in Types
  BY DEF FtStates, FtResults, FwStates, Types
<1> QED
  BY <1>1 DEF Init, Devs, FtWorkspaces, Workspaces, NoDownload

\* When object 33406 becomes idle in a handler that runs to its end, it tells how the
\* transfer ended, whatever the commands, the client and the network do, and wherever the
\* power was lost before, unless a server does not answer the request for the size.
THEOREM ResultsCorrect ==
  ASSUME "noAnswer" \notin Deviations
  PROVE  Spec => EndsWithResult
<1>1. dev \in Devs /\ [Next]_vars => (dev \in Devs)'
  BY ToldStep
<1>2. dev \in Devs /\ [Next]_vars
        => [up' /\ dev.ft.state # "IDLE" /\ dev'.ft.state = "IDLE"
              => dev'.ft.result # "INITIAL"]_vars
  BY ToldStep DEF Told
<1> QED
  BY DevsInit, <1>1, <1>2, PTL DEF Spec, EndsWithResult

\* Without the size the URL is erased, and a file transfer is over.
LEMMA NoSizeFacts ==
  ASSUME NEW d \in Devs, NEW answer \in {"notFound", "noAnswer"}
  PROVE  LET e == GetPackageSize(d, answer)
         IN /\ e \in Devs /\ e.ws.url = NoUrl /\ e.info = d.info /\ e.handlers = d.handlers
            /\ e.ws.type = "FILE" => e.ft.state = "IDLE"
<1> DEFINE e == GetPackageSize(d, answer)
<1>1. CASE answer = "noAnswer" /\ d.ws.type = "FILE"
  <2> DEFINE x == SetState(d, "IDLE")
             y == SetResult(x, "INITIAL")
  <2>1. "IDLE" \in FtStates /\ "INITIAL" \in FtResults
    BY DEF FtStates, FtResults
  <2>2. e = DeleteResumeInfo(y)
    BY <1>1 DEF GetPackageSize
  <2>3. x \in Devs /\ x.ft.state = "IDLE" /\ x.info = d.info /\ x.handlers = d.handlers
    BY <2>1, SetStateFacts
  <2> HIDE DEF x
  <2>4. y \in Devs /\ y.ft.state = "IDLE" /\ y.info = d.info /\ y.handlers = d.handlers
    BY <2>1, <2>3, SetResultFacts
  <2> HIDE DEF y, e
  <2>5. /\ e \in Devs /\ e.ws.url = NoUrl /\ e.info = d.info /\ e.handlers = d.handlers
        /\ e.ft.state = "IDLE"
    BY <2>2, <2>4, DeleteFacts
  <2> QED
    BY <2>5 DEF e
<1>2. CASE ~(answer = "noAnswer" /\ d.ws.type = "FILE")
  <2>1. e = NotStarted(d)
    BY <1>2 DEF GetPackageSize
  <2> HIDE DEF e
  <2>2. EndStored(d, e, d.ws.type)
    BY <2>1, NotStartedFacts
  <2> QED
    BY <2>2 DEF EndStored, e
<1> QED
  BY <1>1, <1>2

----------------------------------------------------------------------------
(* What a command leaves for its handlers *)

\* The handlers have a URI.
HasInfo(d) == d.handlers => d.info # NoUrl

\* A write that is accepted names a transfer, or says where it comes from
LEMMA WriteInfo ==
  ASSUME NEW d \in Devs, NEW w \in Writes, w.value # "bad"
  PROVE  LET e == WriteResource(d, w)
         IN /\ e.handlers = (d.handlers \/ w.rid = "NAME")
            /\ e.info = IF w.rid = "URI" /\ w.value # NoUrl THEN w.value ELSE d.info
<1> DEFINE h == IF w.rid = "NAME" THEN [d EXCEPT !.handlers = TRUE] ELSE d
           e == WriteResource(d, w)
<1>1. h \in Devs /\ h.info = d.info /\ h.handlers = (d.handlers \/ w.rid = "NAME")
  BY DEF Devs
<1> HIDE DEF h
<1>2. CASE (w.rid = "URI" /\ w.value = NoUrl) \/ w.rid = "PACKAGE"
  <2>1. PICK type \in {"FW", "FILE"} : e = SetUpdatePackageUri(h, type, w.value)
    BY <1>2 DEF WriteResource, h
  <2>2. w.value \in Urls \cup {NoUrl}
    BY <1>2 DEF Writes
  <2> HIDE DEF e
  <2>3. UriStored(h, e, type, w.value)
    BY <1>1, <2>1, <2>2, UriFacts
  <2>4. e.handlers = h.handlers /\ e.info = h.info
    BY <2>3 DEF UriStored
  <2> QED
    BY <1>1, <1>2, <2>4 DEF e
<1>3. CASE w.rid = "URI" /\ w.value # NoUrl
  <2>1. e = [h EXCEPT !.info = w.value]
    BY <1>3 DEF WriteResource, h
  <2> HIDE DEF e
  <2>2. e.handlers = h.handlers /\ e.info = w.value
    BY <1>1, <2>1 DEF Devs
  <2> QED
    BY <1>1, <1>3, <2>2 DEF e
<1>4. CASE w.rid \notin {"URI", "PACKAGE"}
  <2>1. e = h
    BY <1>4 DEF WriteResource, h
  <2> HIDE DEF e
  <2> QED
    BY <1>1, <1>4, <2>1 DEF e
<1> QED
  BY <1>2, <1>3, <1>4

\* After a command that succeeds the handlers have the URI that came with the name
LEMMA WriteCbInfo ==
  ASSUME "nameOnly" \notin Deviations, NEW d \in Devs, HasInfo(d),
         NEW command \in Commands, IsSent(command), Succeeds(command)
  PROVE  HasInfo(WriteCb(d, command))
<1> DEFINE v == command[1]
           w == command[2]
           e == WriteResource(d, v)
           f == WriteResource(e, w)
<1>1. NoUrl \notin Urls
  BY FileTransferAssumption
<1>2. v \in Writes /\ v.value # "bad"
  BY CommandFacts DEF Succeeds
<1>3. /\ e \in Devs /\ e.handlers = (d.handlers \/ v.rid = "NAME")
      /\ e.info = IF v.rid = "URI" /\ v.value # NoUrl THEN v.value ELSE d.info
  BY <1>2, WriteTold, WriteInfo
<1>4. \A x \in Writes : x.rid = "NAME" /\ x.value # "bad" => x = [rid |-> "NAME", value |-> "good"]
  BY DEF Writes
<1>5. CASE Len(command) = 1
  <2>1. WriteCb(d, command) = e
    BY <1>5 DEF WriteCb
  <2>2. v.rid # "NAME"
    <3>1. SUFFICES ASSUME v.rid = "NAME" PROVE FALSE
      OBVIOUS
    <3>2. DOMAIN command = {1}
      BY <1>5, CommandFacts
    <3>3. Names(command, "good")
      BY <1>2, <1>4, <3>1, <3>2 DEF Names
    <3> QED
      BY <3>1, <3>2, <3>3 DEF IsSent
  <2> HIDE DEF e
  <2> QED
    BY <1>3, <2>1, <2>2 DEF HasInfo
<1>6. CASE Len(command) # 1
  <2>1. DOMAIN command = {1, 2} /\ w \in Writes /\ w.value # "bad"
    BY <1>6, CommandFacts DEF Succeeds
  <2>2. WriteCb(d, command) = f
    BY <1>2, <1>6 DEF WriteCb
  <2> HIDE DEF e
  <2>3. /\ f.handlers = (e.handlers \/ w.rid = "NAME")
        /\ f.info = IF w.rid = "URI" /\ w.value # NoUrl THEN w.value ELSE e.info
    BY <1>3, <2>1, WriteInfo
  <2> HIDE DEF f
  <2>4. v.rid = "NAME" => w.rid = "URI" /\ w.value # NoUrl
    <3>1. SUFFICES ASSUME v.rid = "NAME" PROVE w.rid = "URI" /\ w.value # NoUrl
      OBVIOUS
    <3>2. Names(command, "good")
      BY <1>2, <1>4, <2>1, <3>1 DEF Names
    <3> QED
      BY <2>1, <3>1, <3>2 DEF IsSent
  <2>5. w.rid = "NAME" => v.rid = "URI" /\ v.value # NoUrl
    <3>1. SUFFICES ASSUME w.rid = "NAME" PROVE v.rid = "URI" /\ v.value # NoUrl
      OBVIOUS
    <3>2. Names(command, "good")
      BY <1>4, <2>1, <3>1 DEF Names
    <3> QED
      BY <2>1, <3>1, <3>2 DEF IsSent
  <2> HIDE DEF v, w
  <2> QED
    BY <1>3, <2>2, <2>3, <2>4, <2>5 DEF HasInfo
<1> QED
  BY <1>5, <1>6

----------------------------------------------------------------------------
(* An object that is busy as long as the workspace has its URL *)

\* What the main thread keeps between its steps: the URL of a transfer that goes on,
\* the type of a download that is not aborted
Coherent(d) ==
  /\ d \in Devs
  /\ d.ws.type = "FILE" => (d.ft.state # "IDLE" <=> d.ws.url # NoUrl)
  /\ d.status = "OK" /\ pc = "receive"
       => d.ws.url # NoUrl /\ (d.ws.type = "FILE" => kind = "FILE")
  /\ d.status = "OK" /\ pc \in {"receive", "received"} /\ kind = "FILE" => Room

Roomy(d) == d.ws.type = "FILE" /\ d.ft.state # "IDLE" => Room

FilesOK == files \subseteq FileIds /\ Cardinality(files) <= MaxFiles

\* No power is lost in the middle of the handler.
NotTorn == \A d : ~Torn(d)

BusyInv ==
  /\ Coherent(dev) /\ Roomy(dev) /\ HasInfo(dev)
  /\ pc = "received" => kind = "FILE"
  /\ FilesOK /\ ListInv

LEMMA UriCoherent ==
  ASSUME NEW d, NEW e, NEW type \in {"FW", "FILE"}, NEW u, type = "FW" \/ u = NoUrl,
         Coherent(d), Roomy(d), UriStored(d, e, type, u)
  PROVE  Coherent(e) /\ Roomy(e)
<1>1. e.ws.type = "FILE" => e.ft.state = "IDLE" /\ e.ws.url = NoUrl
  BY DEF UriStored
<1>2. e.status = "OK" => d.status = "OK" /\ (d.ws.url = NoUrl \/ (type = "FW" /\ u = d.ws.url))
  BY DEF UriStored
<1> QED
  BY <1>1, <1>2 DEF UriStored, Coherent, Roomy

LEMMA WriteGood ==
  ASSUME NEW d, Coherent(d), Roomy(d), NEW w \in Writes, w.value # "bad"
  PROVE  Coherent(WriteResource(d, w)) /\ Roomy(WriteResource(d, w))
<1> DEFINE h == IF w.rid = "NAME" THEN [d EXCEPT !.handlers = TRUE] ELSE d
           e == WriteResource(d, w)
<1>1. d \in Devs
  BY DEF Coherent
<1>2. h \in Devs /\ h.ft = d.ft /\ h.ws = d.ws /\ h.status = d.status
  BY <1>1 DEF Devs
<1> HIDE DEF h
<1>3. Coherent(h) /\ Roomy(h)
  BY <1>2 DEF Coherent, Roomy
<1>4. CASE w.rid = "URI" /\ w.value = NoUrl
  <2>1. e = SetUpdatePackageUri(h, "FILE", NoUrl)
    BY <1>4 DEF WriteResource, h
  <2> HIDE DEF e
  <2>2. UriStored(h, e, "FILE", NoUrl)
    BY <1>2, <2>1, UriFacts
  <2>3. Coherent(e) /\ Roomy(e)
    BY <1>3, <2>2, UriCoherent
  <2> QED
    BY <2>3 DEF e
<1>5. CASE w.rid = "URI" /\ w.value # NoUrl
  <2>1. e = [h EXCEPT !.info = w.value]
    BY <1>5 DEF WriteResource, h
  <2>2. w.value \in Urls
    BY <1>5 DEF Writes
  <2> HIDE DEF e
  <2>3. e \in Devs /\ e.ft = h.ft /\ e.ws = h.ws /\ e.status = h.status
    BY <1>2, <2>1, <2>2 DEF Devs
  <2>4. Coherent(e) /\ Roomy(e)
    BY <1>3, <2>3 DEF Coherent, Roomy
  <2> QED
    BY <2>4 DEF e
<1>6. CASE w.rid = "PACKAGE"
  <2>1. e = SetUpdatePackageUri(h, "FW", w.value)
    BY <1>6 DEF WriteResource, h
  <2>2. w.value \in Urls \cup {NoUrl}
    BY <1>6 DEF Writes
  <2> HIDE DEF e
  <2>3. UriStored(h, e, "FW", w.value)
    BY <1>2, <2>1, <2>2, UriFacts
  <2>4. Coherent(e) /\ Roomy(e)
    BY <1>3, <2>3, UriCoherent
  <2> QED
    BY <2>4 DEF e
<1>7. CASE w.rid \notin {"URI", "PACKAGE"}
  <2>1. e = h
    BY <1>7 DEF WriteResource, h
  <2> HIDE DEF e
  <2> QED
    BY <1>3, <2>1 DEF e
<1> QED
  BY <1>4, <1>5, <1>6, <1>7

LEMMA WriteBad ==
  ASSUME NEW d, Coherent(d), Roomy(d), NEW w, w.value = "bad"
  PROVE  Coherent(WriteResource(d, w)) /\ Roomy(WriteResource(d, w))
<1> DEFINE h == IF w.rid = "NAME" THEN [d EXCEPT !.handlers = TRUE] ELSE d
           e == WriteResource(d, w)
<1>1. d \in Devs
  BY DEF Coherent
<1>2. h \in Devs /\ h.ft = d.ft /\ h.ws = d.ws /\ h.status = d.status
  BY <1>1 DEF Devs
<1>3. e = PreOperationFailure(h, "refused")
  BY DEF WriteResource
<1> HIDE DEF h, e
<1>4. e \in Devs /\ e.ft.state = h.ft.state /\ e.ws = h.ws /\ e.status = h.status
  BY <1>2, <1>3, FailureFacts
<1>5. Coherent(e) /\ Roomy(e)
  BY <1>2, <1>4 DEF Coherent, Roomy
<1> QED
  BY <1>5 DEF e

LEMMA WriteCoherent ==
  ASSUME NEW d, Coherent(d), Roomy(d), NEW w \in Writes
  PROVE  Coherent(WriteResource(d, w)) /\ Roomy(WriteResource(d, w))
<1>1. CASE w.value = "bad"
  BY <1>1, WriteBad
<1>2. CASE w.value # "bad"
  BY <1>2, WriteGood
<1> QED
  BY <1>1, <1>2

LEMMA WriteCbCoherent ==
  ASSUME NEW d, Coherent(d), Roomy(d), NEW command \in Commands
  PROVE  Coherent(WriteCb(d, command)) /\ Roomy(WriteCb(d, command))
<1> DEFINE e == WriteResource(d, command[1])
           f == WriteResource(e, command[2])
<1>1. Coherent(e) /\ Roomy(e)
  BY CommandFacts, WriteCoherent
<1>2. CASE command[1].value = "bad" \/ Len(command) = 1
  BY <1>1, <1>2 DEF WriteCb
<1>3. CASE ~(command[1].value = "bad" \/ Len(command) = 1)
  <2> HIDE DEF e
  <2>1. Coherent(f) /\ Roomy(f)
    BY <1>1, <1>3, CommandFacts, WriteCoherent
  <2> QED
    BY <1>3, <2>1 DEF WriteCb, e
<1> QED
  BY <1>2, <1>3

LEMMA RoomOfList ==
  ASSUME listed = files, FilesOK
  PROVE  Room <=> Cardinality(listed) # MaxFiles
<1>1. files \subseteq FileIds /\ IsFiniteSet(FileIds) /\ MaxFiles \in Nat
  BY FileTransferAssumption DEF FilesOK
<1>2. Cardinality(files) \in Nat
  BY <1>1, FS_Subset, FS_CardinalityType
<1> QED
  BY <1>1, <1>2 DEF Room, FilesOK

LEMMA TreatCoherent ==
  ASSUME {"full", "refused"} \cap Deviations = {}, listed = files, FilesOK,
         NEW d, Coherent(d), Roomy(d), HasInfo(d), d.handlers, NEW answer \in Answers(d)
  PROVE  LET e == TreatInfo(d, answer)
         IN /\ Coherent(e) /\ (answer # "ok" => Roomy(e))
            /\ e.status = "OK" /\ pc = "receive" => Room
<1> DEFINE e == TreatInfo(d, answer)
<1>1. d \in Devs /\ d.info # NoUrl
  BY DEF Coherent, HasInfo
<1>2. answer \in AnswerKinds
  BY DEF Answers, AnswerKinds
<1>3. answer = "present" => d.ws.url = NoUrl \/ d.ws.type = "FILE" \/ Cardinality(listed) < MaxFiles
  BY DEF Answers
<1>4. answer \in {"refused", "exists"}
        => d.ws.url = NoUrl \/ (d.ws.type = "FW" /\ Cardinality(listed) < MaxFiles)
  BY DEF Answers
<1>5. d.status = "OK" /\ pc = "receive" => d.ws.url # NoUrl
  BY DEF Coherent
<1>6. CASE answer = "ok"
  <2>1. /\ e \in Devs /\ e.ws.type = "FILE" /\ e.ws.url = d.info /\ e.ft.state = "PROCESSING"
        /\ e.status = "ABORTED" \/ (e.status = d.status /\ d.ws.url = NoUrl)
    BY <1>1, <1>2, <1>6, TreatFacts
  <2> HIDE DEF e
  <2>2. e.status = "OK" => d.status = "OK" /\ pc # "receive"
    BY <1>5, <2>1
  <2>3. Coherent(e)
    BY <1>1, <2>1, <2>2 DEF Coherent
  <2> QED
    BY <1>6, <2>2, <2>3 DEF e
<1>7. CASE answer = "present"
  <2>1. e = d
    BY <1>1, <1>2, <1>7, TreatFacts
  <2>2. d.status = "OK" /\ pc = "receive" => Room
    BY <1>3, <1>5, <1>7 DEF Coherent, Roomy, Room
  <2> HIDE DEF e
  <2> QED
    BY <2>1, <2>2 DEF e
<1>8. CASE answer \in {"refused", "exists"}
  <2>1. e \in Devs /\ e.ft.state = "IDLE" /\ e.ws = d.ws /\ e.status = d.status
    BY <1>1, <1>2, <1>8, TreatFacts
  <2> HIDE DEF e
  <2>2. Coherent(e) /\ Roomy(e)
    BY <1>4, <1>8, <2>1 DEF Coherent, Roomy
  <2>3. e.status = "OK" /\ pc = "receive" => Room
    BY <1>4, <1>5, <1>8, <2>1 DEF Room
  <2> QED
    BY <2>2, <2>3 DEF e
<1> QED
  BY <1>2, <1>6, <1>7, <1>8 DEF AnswerKinds

LEMMA CheckCoherent ==
  ASSUME listed = files, FilesOK,
         NEW d, Coherent(d), d.status = "OK" /\ pc = "receive" => Room
  PROVE  LET e == CheckFileTransferPossible(d) IN Coherent(e) /\ Roomy(e)
<1> DEFINE e == CheckFileTransferPossible(d)
<1>1. d \in Devs
  BY DEF Coherent
<1>2. CASE Cardinality(listed) = MaxFiles
  <2>1. e \in Devs /\ e.ws.url = NoUrl /\ e.status = d.status /\ e.ft.state = "IDLE"
    BY <1>1, <1>2, CheckFacts
  <2>2. ~Room
    BY <1>2, RoomOfList
  <2> HIDE DEF e
  <2>3. Coherent(e) /\ Roomy(e)
    BY <2>1, <2>2 DEF Coherent, Roomy
  <2> QED
    BY <2>3 DEF e
<1>3. CASE Cardinality(listed) # MaxFiles
  <2>1. e = d
    BY <1>1, <1>3, CheckFacts
  <2>2. Room
    BY <1>3, RoomOfList
  <2> QED
    BY <2>1, <2>2 DEF Roomy
<1> QED
  BY <1>2, <1>3

LEMMA EndOfCommand ==
  ASSUME {"full", "refused"} \cap Deviations = {}, listed = files, FilesOK,
         NEW d, Coherent(d), Roomy(d), NEW s \in BOOLEAN, s => HasInfo(d),
         NEW answer \in Answers(d), NEW counts \in BOOLEAN
  PROVE  LET f == PostRequest(CommandEnd(d, s, answer), s /\ (answer = "ok" \/ counts))
         IN Coherent(f) /\ Roomy(f) /\ HasInfo(f)
<1> DEFINE e == CommandEnd(d, s, answer)
           t == s /\ (answer = "ok" \/ counts)
           c == IF e.handlers /\ t THEN CheckFileTransferPossible(e) ELSE e
           f == PostRequest(e, t)
<1>1. d \in Devs /\ answer \in AnswerKinds
  BY DEF Coherent, Answers, AnswerKinds
<1>2. Coherent(c) /\ Roomy(c)
  <2>1. CASE d.handlers /\ s
    <3>1. e = TreatInfo(d, answer)
      BY <2>1 DEF CommandEnd
    <3>2. Coherent(e) /\ (answer # "ok" => Roomy(e)) /\ (e.status = "OK" /\ pc = "receive" => Room)
      BY <2>1, <3>1, TreatCoherent
    <3> HIDE DEF e
    <3>3. e.handlers = d.handlers
      BY <1>1, <3>1, TreatFacts
    <3>4. CASE answer = "ok" \/ counts
      <4>1. c = CheckFileTransferPossible(e)
        BY <2>1, <3>3, <3>4
      <4>2. e.status = "OK" /\ pc = "receive" => Room
        BY <3>2
      <4> HIDE DEF c
      <4> QED
        BY <3>2, <4>1, <4>2, CheckCoherent
    <3>5. CASE ~(answer = "ok" \/ counts)
      BY <3>2, <3>5
    <3> QED
      BY <3>4, <3>5
  <2>2. CASE ~(d.handlers /\ s)
    <3>1. e = d
      BY <2>2 DEF CommandEnd
    <3> HIDE DEF e
    <3> QED
      BY <2>2, <3>1
  <2> QED
    BY <2>1, <2>2
<1>3. f = [c EXCEPT !.handlers = FALSE]
  BY DEF PostRequest
<1> HIDE DEF c, f
<1>4. c \in Devs
  BY <1>2 DEF Coherent
<1>5. f \in Devs /\ f.ft = c.ft /\ f.ws = c.ws /\ f.status = c.status /\ f.handlers = FALSE
  BY <1>3, <1>4 DEF Devs
<1>6. Coherent(f) /\ Roomy(f) /\ HasInfo(f)
  BY <1>2, <1>5 DEF Coherent, Roomy, HasInfo
<1> QED
  BY <1>6 DEF f

LEMMA FewerFiles ==
  ASSUME FilesOK, files' \subseteq files
  PROVE  FilesOK' /\ (Room => Room')
<1>1. files \subseteq FileIds /\ IsFiniteSet(FileIds) /\ MaxFiles \in Nat
  BY FileTransferAssumption DEF FilesOK
<1>2. IsFiniteSet(files)
  BY <1>1, FS_Subset
<1>3. Cardinality(files) \in Nat /\ Cardinality(files') \in Nat
      /\ Cardinality(files') <= Cardinality(files)
  BY <1>2, FS_Subset, FS_CardinalityType
<1> QED
  BY <1>1, <1>3 DEF FilesOK, Room

LEMMA OneMoreFile ==
  ASSUME FilesOK, Room, NEW i \in FileIds \ files, files' = files \cup {i}
  PROVE  FilesOK'
<1>1. files \subseteq FileIds /\ IsFiniteSet(FileIds) /\ MaxFiles \in Nat
  BY FileTransferAssumption DEF FilesOK
<1>2. IsFiniteSet(files)
  BY <1>1, FS_Subset
<1>3. Cardinality(files) \in Nat /\ Cardinality(files') = Cardinality(files) + 1
  BY <1>2, FS_AddElement, FS_CardinalityType
<1> QED
  BY <1>1, <1>3 DEF FilesOK, Room

\* Steps of the main thread that leave the download and the files alone
LEMMA MainThreadStep ==
  ASSUME BusyInv, ListInv', Coherent(dev'), Roomy(dev'), HasInfo(dev'),
         UNCHANGED <<pc, kind, files>>
  PROVE  BusyInv'
<1>1. Room' = Room /\ FilesOK'
  BY DEF Room, FilesOK, BusyInv
<1>2. Coherent(dev)' /\ Roomy(dev)' /\ HasInfo(dev)'
  BY <1>1 DEF Coherent, Roomy, HasInfo
<1> QED
  BY <1>1, <1>2 DEF BusyInv

\* Steps after which the download thread is not in a transfer
LEMMA NoTransferStep ==
  ASSUME BusyInv, ListInv', FilesOK', pc' \notin {"receive", "received"},
         dev' \in Devs, HasInfo(dev'),
         dev'.ws.type = "FILE" =>
           /\ dev'.ft.state # "IDLE" <=> dev'.ws.url # NoUrl
           /\ dev'.ft.state # "IDLE" => Room'
  PROVE  BusyInv'
<1>1. Coherent(dev)' /\ Roomy(dev)' /\ HasInfo(dev)'
  BY DEF Coherent, Roomy, HasInfo
<1> QED
  BY <1>1 DEF BusyInv

LEMMA DoneBusy ==
  ASSUME NEW d, Coherent(d), Roomy(d), HasInfo(d), Done(d)
  PROVE  Coherent(dev') /\ Roomy(dev') /\ HasInfo(dev')
<1>1. Same(d, dev')
  BY DoneFacts DEF Coherent
<1> QED
  BY <1>1 DEF Same, Coherent, Roomy, HasInfo

LEMMA CommandBusy ==
  ASSUME {"full", "refused", "nameOnly"} \cap Deviations = {}, NotTorn, BusyInv, ListInv',
         NEW command \in Commands, Command(command)
  PROVE  BusyInv'
<1> DEFINE d == WriteCb(dev, command)
           s == Succeeds(command)
<1>1. /\ Coherent(dev) /\ Roomy(dev) /\ HasInfo(dev) /\ FilesOK
      /\ up /\ IsSent(command) /\ listed = files
  BY DEF BusyInv, Command, ListInv, ServerSeesList
<1>2. PICK answer \in Answers(d), counts \in BOOLEAN :
        Done(PostRequest(CommandEnd(d, s, answer), s /\ (answer = "ok" \/ counts)))
  BY DEF Command, NotTorn
<1>3. UNCHANGED <<pc, kind, files>>
  BY DEF Command, NotTorn, thread, lists
<1>4. Coherent(d) /\ Roomy(d) /\ (s => HasInfo(d))
  BY <1>1, WriteCbCoherent, WriteCbInfo DEF Coherent
<1>5. s \in BOOLEAN
  BY DEF Succeeds
<1> HIDE DEF d, s
<1> DEFINE f == PostRequest(CommandEnd(d, s, answer), s /\ (answer = "ok" \/ counts))
<1>6. Coherent(f) /\ Roomy(f) /\ HasInfo(f)
  BY <1>1, <1>4, <1>5, EndOfCommand
<1> HIDE DEF f
<1>7. Coherent(dev') /\ Roomy(dev') /\ HasInfo(dev')
  BY <1>2, <1>6, DoneBusy DEF f
<1> QED
  BY <1>3, <1>7, MainThreadStep

LEMMA StartBusy ==
  ASSUME NotTorn, BusyInv, ListInv', Start
  PROVE  BusyInv'
<1> DEFINE i == SetResult(dev, "INITIAL")
           t == SetState(i, "TRANSFERRING")
           d == IF dev.ws.type = "FILE" THEN t ELSE SetFwState(dev, "DOWNLOADING")
           o == [d EXCEPT !.status = "OK"]
<1>1. "INITIAL" \in FtResults /\ "TRANSFERRING" \in FtStates /\ "DOWNLOADING" \in FwStates
  BY DEF FtStates, FtResults, FwStates
<1>2. dev \in Devs /\ HasInfo(dev) /\ Coherent(dev) /\ Roomy(dev)
  BY DEF BusyInv, Coherent
<1>3. /\ UNCHANGED <<files, listed, seen, up>> /\ kind' = dev.ws.type
      /\ \/ Done(PkgDwlEnd(d, dev.ws.type, FALSE)) /\ pc' = "off"
         \/ dev.ws.url # NoUrl /\ Done(o) /\ pc' = "receive"
  BY DEF Start, NotTorn, lists
<1>4. /\ i \in Devs /\ i.ws = dev.ws /\ i.status = dev.status /\ i.info = dev.info
      /\ i.handlers = dev.handlers
  BY <1>1, <1>2, SetResultFacts
<1> HIDE DEF i
<1>5. /\ t \in Devs /\ t.ft.state = "TRANSFERRING" /\ t.ws = dev.ws /\ t.info = dev.info
      /\ t.handlers = dev.handlers
  BY <1>1, <1>4, SetStateFacts
<1> HIDE DEF t
<1>6. /\ d \in Devs /\ d.ws = dev.ws /\ d.info = dev.info /\ d.handlers = dev.handlers
      /\ dev.ws.type = "FILE" => d.ft.state = "TRANSFERRING"
  BY <1>1, <1>2, <1>5, SetFwStateFacts
<1>7. FilesOK' /\ Room' = Room
  BY <1>3 DEF BusyInv, FilesOK, Room
<1> HIDE DEF d
<1>8. CASE Done(PkgDwlEnd(d, dev.ws.type, FALSE)) /\ pc' = "off"
  <2>1. EndStored(d, dev', dev.ws.type)
    BY <1>6, <1>8, EndDone
  <2>2. /\ dev' \in Devs /\ dev'.ws.type = dev.ws.type /\ dev'.ws.url = NoUrl
        /\ dev.ws.type = "FILE" => dev'.ft.state = "IDLE"
        /\ HasInfo(dev')
    BY <1>2, <1>6, <2>1 DEF EndStored, HasInfo
  <2> QED
    BY <1>7, <1>8, <2>2, NoTransferStep
<1>9. CASE dev.ws.url # NoUrl /\ Done(o) /\ pc' = "receive"
  <2>1. /\ o \in Devs /\ o.ws = dev.ws /\ o.ft = d.ft /\ o.info = dev.info
        /\ o.handlers = dev.handlers
    BY <1>6 DEF Devs
  <2> HIDE DEF o
  <2>2. Same(o, dev')
    BY <1>9, <2>1, DoneFacts
  <2>3. dev.ws.type = "FILE" => Room
    BY <1>2, <1>9 DEF Coherent, Roomy
  <2>4. Coherent(dev)' /\ Roomy(dev)' /\ HasInfo(dev)'
    BY <1>2, <1>3, <1>6, <1>7, <1>9, <2>1, <2>2, <2>3 DEF Same, Coherent, Roomy, HasInfo
  <2> QED
    BY <1>7, <1>9, <2>4 DEF BusyInv
<1> QED
  BY <1>3, <1>8, <1>9

LEMMA EndBusy ==
  ASSUME BusyInv, ListInv', FilesOK', dev.ws.type = "FILE" => kind = "FILE",
         NEW succeeds \in BOOLEAN, Done(PkgDwlEnd(dev, kind, succeeds)), pc' = "off"
  PROVE  BusyInv'
<1>1. dev \in Devs /\ HasInfo(dev)
  BY DEF BusyInv, Coherent
<1>2. EndStored(dev, dev', kind)
  BY <1>1, EndDone
<1>3. /\ dev' \in Devs /\ dev'.ws.type = dev.ws.type /\ dev'.ws.url = NoUrl
      /\ kind = "FILE" => dev'.ft.state = "IDLE"
      /\ HasInfo(dev')
  BY <1>1, <1>2 DEF EndStored, HasInfo
<1> QED
  BY <1>3, NoTransferStep

LEMMA HandlerBusy ==
  ASSUME "half" \notin Deviations, NotTorn, BusyInv, ListInv', PackageDownloadHandler
  PROVE  BusyInv'
<1> DEFINE d == [dev EXCEPT !.timer = FALSE,
                            !.status = IF dev.ws.url = NoUrl THEN @ ELSE "OK"]
<1>1. dev \in Devs /\ HasInfo(dev) /\ Coherent(dev) /\ Roomy(dev)
  BY DEF BusyInv, Coherent
<1>2. /\ UNCHANGED files
      /\ \E answer \in Sizes(dev) : /\ Done(GetPackageSize(d, answer))
                                    /\ pc' = IF answer = "size" THEN "init" ELSE "off"
  BY DEF PackageDownloadHandler, NotTorn, lists
<1>3. FilesOK' /\ Room' = Room
  BY <1>2 DEF BusyInv, FilesOK, Room
<1>4. d \in Devs /\ d.ft = dev.ft /\ d.ws = dev.ws /\ d.info = dev.info /\ d.handlers = dev.handlers
  BY <1>1 DEF Devs
<1> HIDE DEF d
<1>5. PICK answer \in Sizes(dev) : Done(GetPackageSize(d, answer))
                                     /\ pc' = IF answer = "size" THEN "init" ELSE "off"
  BY <1>2
<1>6. answer \in {"size", "notFound", "noAnswer"}
  BY DEF Sizes
<1> DEFINE e == GetPackageSize(d, answer)
<1>7. CASE answer = "size"
  <2>1. /\ e \in Devs /\ e.ws.type = d.ws.type /\ e.ws.url = d.ws.url /\ e.ft = d.ft
        /\ e.info = d.info /\ e.handlers = d.handlers
    BY <1>4, <1>7, SizeFacts
  <2> HIDE DEF e
  <2>2. Same(e, dev')
    BY <1>5, <2>1, DoneFacts DEF e
  <2>3. /\ dev' \in Devs /\ HasInfo(dev')
        /\ dev'.ws.type = "FILE" => /\ dev'.ft.state # "IDLE" <=> dev'.ws.url # NoUrl
                                    /\ dev'.ft.state # "IDLE" => Room'
    BY <1>1, <1>3, <1>4, <2>1, <2>2 DEF Same, Coherent, Roomy, HasInfo
  <2> QED
    BY <1>3, <1>5, <1>7, <2>3, NoTransferStep
<1>8. CASE answer # "size"
  <2>1. /\ e \in Devs /\ e.ws.url = NoUrl /\ e.info = d.info /\ e.handlers = d.handlers
        /\ e.ws.type = "FILE" => e.ft.state = "IDLE"
    BY <1>4, <1>6, <1>8, NoSizeFacts
  <2> HIDE DEF e
  <2>2. Same(e, dev')
    BY <1>5, <2>1, DoneFacts DEF e
  <2>3. /\ dev' \in Devs /\ HasInfo(dev') /\ dev'.ws.url = NoUrl
        /\ dev'.ws.type = "FILE" => dev'.ft.state = "IDLE"
    BY <1>1, <1>4, <2>1, <2>2 DEF Same, HasInfo
  <2> QED
    BY <1>3, <1>5, <1>8, <2>3, NoTransferStep
<1> QED
  BY <1>7, <1>8

\* Steps that leave dev and the download alone, and add no file
LEMMA FilesStep ==
  ASSUME BusyInv, ListInv', files' \subseteq files, UNCHANGED <<dev, thread>>
  PROVE  BusyInv'
<1>1. FilesOK' /\ (Room => Room')
  BY FewerFiles DEF BusyInv
<1>2. Coherent(dev)' /\ Roomy(dev)' /\ HasInfo(dev)'
  BY <1>1 DEF BusyInv, Coherent, Roomy, HasInfo, thread
<1> QED
  BY <1>1, <1>2 DEF BusyInv, thread

LEMMA BusyStep ==
  ASSUME Deviations \subseteq {"noAnswer", "torn"}, NotTorn, BusyInv, [Next]_vars
  PROVE  BusyInv'
<1>1. ListInv'
  BY ListStep DEF BusyInv
<1>2. dev \in Devs /\ HasInfo(dev) /\ Coherent(dev) /\ Roomy(dev) /\ FilesOK
  BY DEF BusyInv, Coherent
<1>3. ASSUME NEW command \in Commands, Command(command) PROVE BusyInv'
  BY <1>1, <1>3, CommandBusy
<1>4. ASSUME NEW command \in Commands, CommandElsewhere(command) PROVE BusyInv'
  <2> DEFINE d == WriteCb(dev, command)
  <2>1. /\ IsSent(command) /\ Succeeds(command) /\ Done(d)
        /\ UNCHANGED <<pc, kind, files>>
    BY <1>4 DEF CommandElsewhere, NotTorn, thread, lists
  <2>2. Coherent(d) /\ Roomy(d) /\ HasInfo(d)
    BY <1>2, <2>1, WriteCbCoherent, WriteCbInfo DEF Coherent
  <2> HIDE DEF d
  <2>3. Coherent(dev') /\ Roomy(dev') /\ HasInfo(dev')
    BY <2>1, <2>2, DoneBusy
  <2> QED
    BY <1>1, <2>1, <2>3, MainThreadStep
<1>5. CASE PackageDownloadHandler
  BY <1>1, <1>5, HandlerBusy
<1>6. CASE Start
  BY <1>1, <1>6, StartBusy
<1>7. CASE Stop
  <2>1. UNCHANGED <<dev, kind, files>> /\ pc' = "off"
    BY <1>7 DEF Stop, lists
  <2>2. FilesOK' /\ Room' = Room
    BY <1>2, <2>1 DEF FilesOK, Room
  <2> QED
    BY <1>1, <1>2, <2>1, <2>2, NoTransferStep DEF Coherent, Roomy, HasInfo
<1>8. CASE Received
  <2>1. UNCHANGED <<kind, files>> /\ pc = "receive" /\ dev.status = "OK"
    BY <1>8 DEF Received, NotTorn, lists
  <2>2. FilesOK' /\ Room' = Room
    BY <1>2, <2>1 DEF FilesOK, Room
  <2>3. dev.ws.type = "FILE" => kind = "FILE"
    BY <1>2, <2>1 DEF Coherent
  <2>4. CASE kind # "FILE"
    <3>1. PICK succeeds \in BOOLEAN : Done(PkgDwlEnd(dev, kind, succeeds))
      BY <1>8, <2>4 DEF Received, NotTorn
    <3>2. pc' = "off"
      BY <1>8, <2>4 DEF Received, NotTorn
    <3> QED
      BY <1>1, <2>2, <2>3, <3>1, <3>2, EndBusy
  <2>5. CASE kind = "FILE"
    <3>1. dev' = [dev EXCEPT !.ws.whole = TRUE] /\ pc' = "received"
      BY <1>8, <2>5 DEF Received
    <3>2. /\ dev' \in Devs /\ dev'.ft = dev.ft /\ dev'.ws.type = dev.ws.type
          /\ dev'.ws.url = dev.ws.url /\ dev'.status = dev.status
          /\ dev'.info = dev.info /\ dev'.handlers = dev.handlers
      BY <1>2, <3>1 DEF Devs, Workspaces
    <3>3. Coherent(dev)' /\ Roomy(dev)' /\ HasInfo(dev)'
      BY <1>2, <2>1, <2>2, <3>1, <3>2 DEF Coherent, Roomy, HasInfo
    <3> QED
      BY <1>1, <2>1, <2>2, <2>5, <3>3 DEF BusyInv
  <2> QED
    BY <2>4, <2>5
<1>9. CASE HandlePackageDownloader
  <2>1. pc = "received" /\ kind = "FILE" /\ pc' = "off" /\ UNCHANGED kind /\ up
    BY <1>9 DEF HandlePackageDownloader, NotTorn, BusyInv
  <2>2. CASE UNCHANGED <<dev, files>>
    <3>1. FilesOK' /\ Room' = Room
      BY <1>2, <2>2 DEF FilesOK, Room
    <3> QED
      BY <1>1, <1>2, <2>1, <2>2, <3>1, NoTransferStep DEF Coherent, Roomy, HasInfo
  <2>3. CASE Done(PkgDwlEnd(dev, kind, FALSE)) /\ UNCHANGED files
    <3>1. FilesOK'
      BY <1>2, <2>3 DEF FilesOK
    <3> QED
      BY <1>1, <2>1, <2>3, <3>1, EndBusy
  <2>4. CASE dev.status # "ABORTED" /\ Done(PkgDwlEnd(dev, kind, TRUE))
             /\ \E i \in FileIds \ files : UpdateFileTransferList(files \cup {i})
    <3>1. dev.status = "OK"
      BY <1>2, <2>4 DEF Devs
    <3>2. Room
      BY <1>2, <2>1, <3>1 DEF Coherent
    <3>3. PICK i \in FileIds \ files : files' = files \cup {i}
      BY <2>4 DEF UpdateFileTransferList
    <3>4. FilesOK'
      BY <1>2, <3>2, <3>3, OneMoreFile
    <3> QED
      BY <1>1, <2>1, <2>4, <3>4, EndBusy
  <2> QED
    BY <1>9, <2>2, <2>3, <2>4 DEF HandlePackageDownloader, NotTorn, lists
<1>10. CASE TransferBreaks
  <2>1. pc = "receive" /\ dev.status = "OK" /\ pc' = "off" /\ UNCHANGED <<kind, files>>
    BY <1>10 DEF TransferBreaks, NotTorn, lists
  <2>2. FilesOK' /\ Room' = Room
    BY <1>2, <2>1 DEF FilesOK, Room
  <2>3. CASE Done(PkgDwlEnd(dev, kind, FALSE))
    <3>1. dev.ws.type = "FILE" => kind = "FILE"
      BY <1>2, <2>1 DEF Coherent
    <3> QED
      BY <1>1, <2>1, <2>2, <2>3, <3>1, EndBusy
  <2>4. CASE UNCHANGED dev
    BY <1>1, <1>2, <2>1, <2>2, <2>4, NoTransferStep DEF Coherent, Roomy, HasInfo
  <2> QED
    BY <1>10, <2>3, <2>4 DEF TransferBreaks, NotTorn
<1>11. CASE DeleteFile
  <2>1. files' \subseteq files /\ UNCHANGED <<dev, thread>>
    BY <1>11 DEF DeleteFile
  <2> QED
    BY <1>1, <2>1, FilesStep
<1>12. CASE ClientDeletes
  <2>1. files' \subseteq files /\ UNCHANGED <<dev, thread>>
    BY <1>12 DEF ClientDeletes, UpdateFileTransferList
  <2> QED
    BY <1>1, <2>1, FilesStep
<1>13. CASE Register
  <2>1. /\ pc = "off" /\ pc' \in {"off", "init"} /\ UNCHANGED files
        /\ UNCHANGED dev \/ dev' = [dev EXCEPT !.timer = TRUE]
    BY <1>13 DEF Register
  <2>2. FilesOK' /\ Room' = Room
    BY <1>2, <2>1 DEF FilesOK, Room
  <2>3. /\ dev' \in Devs /\ dev'.ft = dev.ft /\ dev'.ws = dev.ws
        /\ dev'.info = dev.info /\ dev'.handlers = dev.handlers
    BY <1>2, <2>1 DEF Devs
  <2> QED
    BY <1>1, <1>2, <2>1, <2>2, <2>3, NoTransferStep DEF Coherent, Roomy, HasInfo
<1>14. CASE Crash
  <2>1. /\ pc' = "off" /\ UNCHANGED files /\ dev' \in Devs
        /\ dev'.ft = dev.ft /\ dev'.ws = dev.ws /\ dev'.handlers = FALSE
    BY <1>2, <1>14, CrashFacts
  <2>2. FilesOK' /\ Room' = Room
    BY <1>2, <2>1 DEF FilesOK, Room
  <2> QED
    BY <1>1, <1>2, <2>1, <2>2, NoTransferStep DEF Coherent, Roomy, HasInfo
<1>15. CASE UNCHANGED vars
  BY <1>1, <1>15, FilesStep DEF vars, lists, thread
<1> QED
  BY <1>3, <1>4, <1>5, <1>6, <1>7, <1>8, <1>9, <1>10, <1>11, <1>12, <1>13, <1>14, <1>15 DEF Next

LEMMA BusyInit == Init => BusyInv
<1> SUFFICES ASSUME Init PROVE BusyInv
  OBVIOUS
<1>1. dev \in Devs
  BY DevsInit
<1>2. ListInv
  BY DEF Init, ListInv, ServerSeesList
<1>3. FilesOK
  BY DEF Init, FilesOK
<1>4. Coherent(dev) /\ Roomy(dev) /\ HasInfo(dev)
  BY <1>1 DEF Init, NoDownload, Coherent, Roomy, HasInfo
<1> QED
  BY <1>2, <1>3, <1>4 DEF Init, BusyInv

----------------------------------------------------------------------------
(* What holds wherever the power was lost *)

TornInv ==
  /\ dev \in Devs /\ HasInfo(dev)
  /\ pc = "received" => kind = "FILE"
  /\ files \subseteq FileIds /\ ListInv

\* A handler that makes e of dev, and runs to its end or not
LEMMA Left ==
  ASSUME NEW e \in Devs, HasInfo(e), Done(e) \/ Torn(e)
  PROVE  dev' \in Devs /\ HasInfo(dev')
<1>1. CASE Done(e)
  <2>1. Same(e, dev')
    BY <1>1, DoneFacts
  <2> QED
    BY <2>1 DEF Same, HasInfo
<1>2. CASE Torn(e)
  BY <1>2, TornFacts DEF HasInfo
<1> QED
  BY <1>1, <1>2

LEMMA EndLeft ==
  ASSUME dev \in Devs, HasInfo(dev), NEW type, NEW succeeds \in BOOLEAN,
         \/ Done(PkgDwlEnd(dev, type, succeeds))
         \/ Torn(PkgDwlEnd(dev, type, succeeds))
  PROVE  dev' \in Devs /\ HasInfo(dev')
<1> DEFINE e == PkgDwlEnd(dev, type, succeeds)
<1>1. EndStored(dev, e, type)
  BY EndFacts
<1>2. Done(e) \/ Torn(e)
  OBVIOUS
<1> HIDE DEF e
<1> QED
  BY <1>1, <1>2, Left DEF EndStored, HasInfo

LEMMA CommandLeft ==
  ASSUME dev \in Devs, NEW command \in Commands, Command(command)
  PROVE  dev' \in Devs /\ HasInfo(dev')
<1> DEFINE d == WriteCb(dev, command)
           s == Succeeds(command)
<1>1. PICK answer \in Answers(d), counts \in BOOLEAN :
        LET f == PostRequest(CommandEnd(d, s, answer), s /\ (answer = "ok" \/ counts))
        IN Done(f) \/ Torn(f)
  BY DEF Command
<1>2. d \in Devs /\ answer \in AnswerKinds
  BY WriteCbTold DEF Answers, AnswerKinds
<1> HIDE DEF d, s
<1> DEFINE e == CommandEnd(d, s, answer)
           t == s /\ (answer = "ok" \/ counts)
           c == IF e.handlers /\ t THEN CheckFileTransferPossible(e) ELSE e
           f == PostRequest(e, t)
<1>3. Done(f) \/ Torn(f)
  BY <1>1
<1>4. e \in Devs
  BY <1>2, CommandEndTold
<1> HIDE DEF e, t
<1>5. c \in Devs
  BY <1>4, CheckFacts
<1>6. f = [c EXCEPT !.handlers = FALSE]
  BY DEF PostRequest
<1> HIDE DEF c, f
<1>7. f \in Devs /\ f.handlers = FALSE
  BY <1>5, <1>6 DEF Devs
<1> QED
  BY <1>3, <1>7, Left DEF HasInfo

LEMMA HandlerLeft ==
  ASSUME dev \in Devs, HasInfo(dev), PackageDownloadHandler
  PROVE  dev' \in Devs /\ HasInfo(dev')
<1> DEFINE d == [dev EXCEPT !.timer = FALSE,
                            !.status = IF dev.ws.url = NoUrl THEN @ ELSE "OK"]
<1>1. PICK answer \in Sizes(dev) : Done(GetPackageSize(d, answer)) \/ Torn(GetPackageSize(d, answer))
  BY DEF PackageDownloadHandler
<1>2. answer \in {"size", "notFound", "half", "noAnswer"}
  BY DEF Sizes
<1>3. d \in Devs /\ d.info = dev.info /\ d.handlers = dev.handlers
  BY DEF Devs
<1> HIDE DEF d
<1> DEFINE e == GetPackageSize(d, answer)
<1>4. e \in Devs /\ e.info = d.info /\ e.handlers = d.handlers
  <2>1. CASE answer = "size"
    BY <1>3, <2>1, SizeFacts
  <2>2. CASE answer = "half"
    <3>1. e = DeleteResumeInfo(d)
      BY <2>2 DEF GetPackageSize
    <3> HIDE DEF e
    <3> QED
      BY <1>3, <3>1, DeleteFacts
  <2>3. CASE answer \in {"notFound", "noAnswer"}
    BY <1>3, <2>3, NoSizeFacts
  <2> QED
    BY <1>2, <2>1, <2>2, <2>3
<1>5. Done(e) \/ Torn(e)
  BY <1>1
<1> HIDE DEF e
<1> QED
  BY <1>3, <1>4, <1>5, Left DEF HasInfo

LEMMA StartLeft ==
  ASSUME dev \in Devs, HasInfo(dev), Start
  PROVE  dev' \in Devs /\ HasInfo(dev')
<1> DEFINE i == SetResult(dev, "INITIAL")
           t == SetState(i, "TRANSFERRING")
           d == IF dev.ws.type = "FILE" THEN t ELSE SetFwState(dev, "DOWNLOADING")
           x == PkgDwlEnd(d, dev.ws.type, FALSE)
           o == [d EXCEPT !.status = "OK"]
<1>1. "INITIAL" \in FtResults /\ "TRANSFERRING" \in FtStates /\ "DOWNLOADING" \in FwStates
  BY DEF FtStates, FtResults, FwStates
<1>2. \/ Done(x) \/ Torn(x)
      \/ Done(o) \/ Torn(o)
  BY DEF Start
<1>3. i \in Devs /\ i.info = dev.info /\ i.handlers = dev.handlers
  BY <1>1, SetResultFacts
<1> HIDE DEF i
<1>4. t \in Devs /\ t.info = dev.info /\ t.handlers = dev.handlers
  BY <1>1, <1>3, SetStateFacts
<1> HIDE DEF t
<1>5. d \in Devs /\ d.info = dev.info /\ d.handlers = dev.handlers
  BY <1>1, <1>4, SetFwStateFacts
<1> HIDE DEF d
<1>6. x \in Devs /\ HasInfo(x)
  <2>1. EndStored(d, x, dev.ws.type)
    BY <1>5, EndFacts
  <2> QED
    BY <1>5, <2>1 DEF EndStored, HasInfo
<1>7. o \in Devs /\ HasInfo(o)
  BY <1>5 DEF Devs, HasInfo
<1> HIDE DEF x, o
<1> QED
  BY <1>2, <1>6, <1>7, Left

\* Adding a file to the list of the client
LEMMA TornFiles ==
  ASSUME files \subseteq FileIds, [Next]_vars
  PROVE  files' \subseteq FileIds
<1>1. ASSUME NEW command \in Commands, Command(command) PROVE UNCHANGED files
  BY <1>1 DEF Command, lists
<1>2. ASSUME NEW command \in Commands, CommandElsewhere(command) PROVE UNCHANGED files
  BY <1>2 DEF CommandElsewhere, lists
<1>3. PackageDownloadHandler \/ Start \/ Stop \/ Received \/ TransferBreaks => UNCHANGED files
  BY DEF PackageDownloadHandler, Start, Stop, Received, TransferBreaks, lists
<1>4. HandlePackageDownloader => files' \subseteq FileIds
  BY DEF HandlePackageDownloader, UpdateFileTransferList, lists
<1>5. DeleteFile \/ ClientDeletes => files' \subseteq FileIds
  BY DEF DeleteFile, ClientDeletes, UpdateFileTransferList
<1>6. Register \/ Crash \/ UNCHANGED vars => UNCHANGED files
  BY DEF Register, Crash, vars, lists
<1> QED
  BY <1>1, <1>2, <1>3, <1>4, <1>5, <1>6 DEF Next

\* Only a file transfer stops before its end.
LEMMA ReceivedFile ==
  ASSUME pc = "received" => kind = "FILE", [Next]_vars
  PROVE  pc' = "received" => kind' = "FILE"
<1>1. ASSUME NEW d, Torn(d) PROVE pc' = "off"
  BY <1>1 DEF Torn, PowerLoss
<1>2. ASSUME NEW command \in Commands, Command(command)
      PROVE  pc' = "off" \/ UNCHANGED <<pc, kind>>
  BY <1>1, <1>2 DEF Command, thread
<1>3. ASSUME NEW command \in Commands, CommandElsewhere(command)
      PROVE  pc' = "off" \/ UNCHANGED <<pc, kind>>
  BY <1>1, <1>3 DEF CommandElsewhere, thread
<1>4. PackageDownloadHandler \/ Start => pc' # "received"
  BY <1>1 DEF PackageDownloadHandler, Start
<1>5. Received => pc' = "off" \/ (kind = "FILE" /\ UNCHANGED kind)
  BY <1>1 DEF Received
<1>6. Stop \/ HandlePackageDownloader \/ TransferBreaks => pc' = "off"
  BY <1>1 DEF Stop, HandlePackageDownloader, TransferBreaks
<1>7. DeleteFile \/ ClientDeletes \/ UNCHANGED vars => UNCHANGED <<pc, kind>>
  BY DEF DeleteFile, ClientDeletes, vars, thread
<1>8. Register \/ Crash => pc' # "received"
  BY DEF Register, Crash, PowerLoss
<1> QED
  BY <1>2, <1>3, <1>4, <1>5, <1>6, <1>7, <1>8 DEF Next

LEMMA TornStep ==
  ASSUME {"nameOnly", "failsElsewhere", "deleteFails"} \cap Deviations = {}, TornInv, [Next]_vars
  PROVE  TornInv'
<1>1. dev \in Devs /\ HasInfo(dev) /\ ListInv' /\ files' \subseteq FileIds
  <2>1. dev \in Devs /\ HasInfo(dev) /\ ListInv /\ files \subseteq FileIds
    BY DEF TornInv
  <2>2. ListInv'
    BY <2>1, ListStep
  <2>3. files' \subseteq FileIds
    BY <2>1, TornFiles
  <2> QED
    BY <2>1, <2>2, <2>3
<1>2. dev' \in Devs /\ HasInfo(dev')
  <2>1. ASSUME NEW command \in Commands, Command(command)
        PROVE  dev' \in Devs /\ HasInfo(dev')
    BY <1>1, <2>1, CommandLeft
  <2>2. ASSUME NEW command \in Commands, CommandElsewhere(command)
        PROVE  dev' \in Devs /\ HasInfo(dev')
    <3> DEFINE d == WriteCb(dev, command)
    <3>1. IsSent(command) /\ Succeeds(command) /\ (Done(d) \/ Torn(d))
      BY <2>2 DEF CommandElsewhere
    <3>2. d \in Devs /\ HasInfo(d)
      BY <1>1, <3>1, WriteCbTold, WriteCbInfo
    <3> HIDE DEF d
    <3> QED
      BY <3>1, <3>2, Left
  <2>3. CASE PackageDownloadHandler
    BY <1>1, <2>3, HandlerLeft
  <2>4. CASE Start
    BY <1>1, <2>4, StartLeft
  <2>5. CASE Received
    <3>1. CASE \E succeeds \in BOOLEAN : \/ Done(PkgDwlEnd(dev, kind, succeeds))
                                         \/ Torn(PkgDwlEnd(dev, kind, succeeds))
      BY <1>1, <3>1, EndLeft
    <3>2. CASE dev' = [dev EXCEPT !.ws.whole = TRUE]
      BY <1>1, <3>2 DEF Devs, Workspaces, HasInfo
    <3> QED
      BY <2>5, <3>1, <3>2 DEF Received
  <2>6. CASE HandlePackageDownloader \/ TransferBreaks
    <3>1. \/ UNCHANGED dev
          \/ \E succeeds \in BOOLEAN : \/ Done(PkgDwlEnd(dev, kind, succeeds))
                                       \/ Torn(PkgDwlEnd(dev, kind, succeeds))
      BY <2>6 DEF HandlePackageDownloader, TransferBreaks
    <3> QED
      BY <1>1, <3>1, EndLeft
  <2>7. CASE Register
    <3>1. UNCHANGED dev \/ dev' = [dev EXCEPT !.timer = TRUE]
      BY <2>7 DEF Register
    <3> QED
      BY <1>1, <3>1 DEF Devs, HasInfo
  <2>8. CASE Crash
    BY <1>1, <2>8, CrashFacts DEF HasInfo
  <2>9. CASE Stop \/ DeleteFile \/ ClientDeletes \/ UNCHANGED vars
    BY <1>1, <2>9 DEF Stop, DeleteFile, ClientDeletes, vars
  <2> QED
    BY <2>1, <2>2, <2>3, <2>4, <2>5, <2>6, <2>7, <2>8, <2>9 DEF Next
<1>3. pc' = "received" => kind' = "FILE"
  BY ReceivedFile DEF TornInv
<1> QED
  BY <1>1, <1>2, <1>3 DEF TornInv

LEMMA TornInit == Init => TornInv
<1> SUFFICES ASSUME Init PROVE TornInv
  OBVIOUS
<1>1. dev \in Devs /\ ListInv
  BY DevsInit DEF Init, ListInv, ServerSeesList
<1> QED
  BY <1>1 DEF Init, HasInfo, TornInv

----------------------------------------------------------------------------
(* What only a power loss makes disagree *)

LEMMA BusyAgreed ==
  ASSUME TornInv
  PROVE  BusyInv <=> Agreed
  BY DEF BusyInv, TornInv, Agreed, Coherent, Roomy, FilesOK, BusyWithUrl, RoomForTransfer,
         ThreadHasUrl

\* Every handler that runs to its end leaves object 33406, the workspace, the download
\* thread and the list of files in agreement if it found them so, in every order of the
\* commands of both servers, of the thread, of deletions and of registrations, and
\* wherever the power was lost before; a server may not answer at all.
THEOREM AgreementKept ==
  ASSUME Deviations \subseteq {"noAnswer", "torn"}
  PROVE  Spec => HandlersAgree
<1>1. TornInv /\ [Next]_vars => TornInv'
  BY TornStep
<1>2. TornInv /\ [Next]_vars => [up' /\ Agreed => Agreed']_vars
  <2> SUFFICES ASSUME TornInv, [Next]_vars, up', Agreed PROVE Agreed'
    OBVIOUS
  <2>1. NotTorn
    BY DEF NotTorn, Torn, PowerLoss
  <2>2. BusyInv
    BY BusyAgreed
  <2>3. TornInv' /\ BusyInv'
    BY <1>1, <2>1, <2>2, BusyStep
  <2>4. (BusyInv <=> Agreed)'
    BY <2>3 DEF BusyInv, TornInv, Agreed, Coherent, Roomy, FilesOK, BusyWithUrl,
                RoomForTransfer, ThreadHasUrl
  <2> QED
    BY <2>3, <2>4
<1> QED
  BY TornInit, <1>1, <1>2, PTL DEF Spec, HandlersAgree

\* Without a power loss in the middle of a handler they always agree: object 33406 is busy
\* exactly as long as the workspace has the URL of a file, and only while there is room.
THEOREM AgreementCorrect ==
  ASSUME Deviations \subseteq {"noAnswer"}
  PROVE  Spec => []Agreed
<1>1. BusyInv /\ [Next]_vars => BusyInv'
  BY BusyStep DEF NotTorn, Torn
<1>2. BusyInv => Agreed
  BY DEF BusyInv, Agreed, Coherent, Roomy, FilesOK, BusyWithUrl, RoomForTransfer, ThreadHasUrl
<1> QED
  BY BusyInit, <1>1, <1>2, PTL DEF Spec

----------------------------------------------------------------------------
(* What a command makes of what a power loss left *)

\* No transfer is left behind.
Settled(d) == d.ws.type = "FILE" => d.ft.state = "IDLE" /\ d.ws.url = NoUrl

\* The handlers of a command settle what they find, or do not touch it.
Repaired(d, e) == (e.ws = d.ws /\ e.ft.state = d.ft.state) \/ Settled(e)

\* A transfer that has its URL, and was checked
Started(d) ==
  /\ d.ws.type = "FILE" /\ d.ws.url # NoUrl /\ d.ft.state # "IDLE"
  /\ Cardinality(listed) # MaxFiles

LEMMA WriteRepairs ==
  ASSUME NEW d \in Devs, NEW w \in Writes
  PROVE  Repaired(d, WriteResource(d, w))
<1> DEFINE h == IF w.rid = "NAME" THEN [d EXCEPT !.handlers = TRUE] ELSE d
           e == WriteResource(d, w)
<1>1. h \in Devs /\ h.ft = d.ft /\ h.ws = d.ws
  BY DEF Devs
<1> HIDE DEF h
<1>2. CASE w.value = "bad"
  <2>1. e = PreOperationFailure(h, "refused")
    BY <1>2 DEF WriteResource, h
  <2> HIDE DEF e
  <2>2. e.ft.state = h.ft.state /\ e.ws = h.ws
    BY <1>1, <2>1, FailureFacts
  <2> QED
    BY <1>1, <2>2 DEF Repaired, e
<1>3. CASE w.value # "bad" /\ w.rid = "URI" /\ w.value = NoUrl
  <2>1. e = SetUpdatePackageUri(h, "FILE", NoUrl)
    BY <1>3 DEF WriteResource, h
  <2> HIDE DEF e
  <2>2. UriStored(h, e, "FILE", NoUrl)
    BY <1>1, <2>1, UriFacts
  <2> QED
    BY <2>2 DEF UriStored, Repaired, Settled, e
<1>4. CASE w.value # "bad" /\ w.rid = "URI" /\ w.value # NoUrl
  <2>1. e = [h EXCEPT !.info = w.value]
    BY <1>4 DEF WriteResource, h
  <2> HIDE DEF e
  <2>2. e.ft = h.ft /\ e.ws = h.ws
    BY <1>1, <2>1 DEF Devs
  <2> QED
    BY <1>1, <2>2 DEF Repaired, e
<1>5. CASE w.value # "bad" /\ w.rid = "PACKAGE"
  <2>1. e = SetUpdatePackageUri(h, "FW", w.value)
    BY <1>5 DEF WriteResource, h
  <2>2. w.value \in Urls \cup {NoUrl}
    BY <1>5 DEF Writes
  <2> HIDE DEF e
  <2>3. UriStored(h, e, "FW", w.value)
    BY <1>1, <2>1, <2>2, UriFacts
  <2> QED
    BY <2>3 DEF UriStored, Repaired, Settled, e
<1>6. CASE w.value # "bad" /\ w.rid \notin {"URI", "PACKAGE"}
  <2>1. e = h
    BY <1>6 DEF WriteResource, h
  <2> HIDE DEF e
  <2> QED
    BY <1>1, <2>1 DEF Repaired, e
<1> QED
  BY <1>2, <1>3, <1>4, <1>5, <1>6

LEMMA RepairedTransitive ==
  ASSUME NEW d, NEW e, NEW f, Repaired(d, e), Repaired(e, f)
  PROVE  Repaired(d, f)
  BY DEF Repaired, Settled

LEMMA WriteCbRepairs ==
  ASSUME NEW d \in Devs, NEW command \in Commands
  PROVE  Repaired(d, WriteCb(d, command))
<1> DEFINE e == WriteResource(d, command[1])
           f == WriteResource(e, command[2])
<1>1. e \in Devs /\ Repaired(d, e)
  BY CommandFacts, WriteTold, WriteRepairs
<1>2. CASE command[1].value = "bad" \/ Len(command) = 1
  BY <1>1, <1>2 DEF WriteCb
<1>3. CASE ~(command[1].value = "bad" \/ Len(command) = 1)
  <2>1. WriteCb(d, command) = f
    BY <1>3 DEF WriteCb
  <2> HIDE DEF e
  <2>2. Repaired(e, f)
    BY <1>1, <1>3, CommandFacts, WriteRepairs
  <2> HIDE DEF f
  <2> QED
    BY <1>1, <2>1, <2>2, RepairedTransitive
<1> QED
  BY <1>2, <1>3

\* The end of a command whose writes made d of what was there
LEMMA EndRepairs ==
  ASSUME "refused" \notin Deviations, NEW d \in Devs, NEW s \in BOOLEAN, s => HasInfo(d),
         NEW answer \in Answers(d), NEW counts \in BOOLEAN
  PROVE  LET f == PostRequest(CommandEnd(d, s, answer), s /\ (answer = "ok" \/ counts))
         IN Repaired(d, f) \/ Started(f)
<1> DEFINE e == CommandEnd(d, s, answer)
           t == s /\ (answer = "ok" \/ counts)
           c == IF e.handlers /\ t THEN CheckFileTransferPossible(e) ELSE e
           f == PostRequest(e, t)
<1>1. answer \in AnswerKinds
  BY DEF Answers, AnswerKinds
<1>2. c \in Devs /\ (Repaired(d, c) \/ Started(c))
  <2>1. CASE d.handlers /\ s
    <3>1. e = TreatInfo(d, answer) /\ d.info # NoUrl
      BY <2>1 DEF CommandEnd, HasInfo
    <3> HIDE DEF e
    <3>2. e \in Devs /\ e.handlers = d.handlers
      BY <1>1, <3>1, TreatFacts
    <3>3. c \in Devs
      BY <3>2, CheckFacts
    <3>4. e.handlers /\ t /\ Cardinality(listed) = MaxFiles => Settled(c)
      <4>1. e.handlers /\ t => c = CheckFileTransferPossible(e)
        OBVIOUS
      <4> HIDE DEF c
      <4> QED
        BY <3>2, <4>1, CheckFacts DEF Settled
    <3>5. ~(e.handlers /\ t /\ Cardinality(listed) = MaxFiles) => c = e
      BY <3>2, CheckFacts
    <3> HIDE DEF c
    <3>6. CASE answer = "ok"
      <4>1. /\ e.ws.type = "FILE" /\ e.ws.url # NoUrl /\ e.ft.state = "PROCESSING"
            /\ e.handlers /\ t
        BY <2>1, <3>1, <3>2, <3>6, TreatFacts DEF AnswerKinds
      <4> QED
        BY <3>3, <3>4, <3>5, <4>1 DEF Repaired, Started
    <3>7. CASE answer = "present"
      <4>1. e = d
        BY <3>1, <3>7, TreatFacts DEF AnswerKinds
      <4> QED
        BY <3>3, <3>4, <3>5, <4>1 DEF Repaired
    <3>8. CASE answer \in {"refused", "exists"}
      <4>1. d.ws.url = NoUrl \/ d.ws.type = "FW"
        BY <3>8 DEF Answers
      <4>2. e.ft.state = "IDLE" /\ e.ws = d.ws
        BY <1>1, <3>1, <3>8, TreatFacts
      <4>3. Settled(e)
        BY <4>1, <4>2 DEF Settled
      <4> QED
        BY <3>3, <3>4, <3>5, <4>3 DEF Repaired
    <3> QED
      BY <1>1, <3>6, <3>7, <3>8 DEF AnswerKinds
  <2>2. CASE ~(d.handlers /\ s)
    <3>1. e = d
      BY <2>2 DEF CommandEnd
    <3> HIDE DEF e
    <3>2. c = d
      BY <2>2, <3>1
    <3> QED
      BY <3>2 DEF Repaired
  <2> QED
    BY <2>1, <2>2
<1>3. f = [c EXCEPT !.handlers = FALSE]
  BY DEF PostRequest
<1> HIDE DEF c, f
<1>4. f.ft = c.ft /\ f.ws = c.ws
  BY <1>2, <1>3 DEF Devs
<1>5. Repaired(d, f) \/ Started(f)
  BY <1>2, <1>4 DEF Repaired, Settled, Started
<1> QED
  BY <1>5 DEF f

RightAgain == BusyWithUrl /\ (Cardinality(files) <= MaxFiles => RoomForTransfer)

\* A command that runs to its end
LEMMA DoneRepairs ==
  ASSUME TornInv, up, UNCHANGED files, NEW f \in Devs, Done(f), Repaired(dev, f) \/ Started(f),
         dev'.ws # dev.ws \/ dev'.ft.state # dev.ft.state
  PROVE  RightAgain'
<1>1. dev'.ws = f.ws /\ dev'.ft = f.ft
  BY DoneFacts DEF Same
<1>2. CASE Settled(f)
  BY <1>1, <1>2 DEF Settled, RightAgain, BusyWithUrl, RoomForTransfer
<1>3. CASE Started(f)
  <2>1. listed = files /\ IsFiniteSet(files) /\ MaxFiles \in Nat
    BY FileTransferAssumption, FS_Subset DEF TornInv, ListInv, ServerSeesList
  <2>2. Cardinality(files) \in Nat
    BY <2>1, FS_CardinalityType
  <2>3. Cardinality(files) <= MaxFiles => Cardinality(files) < MaxFiles
    BY <1>3, <2>1, <2>2 DEF Started
  <2>4. files' = files /\ dev'.ws.type = "FILE" /\ dev'.ws.url # NoUrl /\ dev'.ft.state # "IDLE"
    BY <1>1, <1>3 DEF Started
  <2> QED
    BY <2>3, <2>4 DEF RightAgain, BusyWithUrl, RoomForTransfer, Room
<1> QED
  BY <1>1, <1>2, <1>3 DEF Repaired

LEMMA RepairStep ==
  ASSUME {"nameOnly", "refused", "failsElsewhere", "deleteFails"} \cap Deviations = {},
         TornInv, [Next]_vars, requests' # requests, up',
         dev'.ws # dev.ws \/ dev'.ft.state # dev.ft.state
  PROVE  RightAgain'
<1>1. dev \in Devs /\ HasInfo(dev)
  BY DEF TornInv
<1>2. ASSUME NEW command \in Commands, Command(command) PROVE RightAgain'
  <2> DEFINE d == WriteCb(dev, command)
             s == Succeeds(command)
  <2>1. PICK answer \in Answers(d), counts \in BOOLEAN :
          /\ Done(PostRequest(CommandEnd(d, s, answer), s /\ (answer = "ok" \/ counts)))
          /\ UNCHANGED files
    BY <1>2 DEF Command, Torn, PowerLoss, lists
  <2>2. d \in Devs /\ Repaired(dev, d) /\ s \in BOOLEAN /\ (s => HasInfo(d))
    BY <1>1, <1>2, WriteCbTold, WriteCbRepairs, WriteCbInfo DEF Command, Succeeds
  <2>3. answer \in AnswerKinds
    BY DEF Answers, AnswerKinds
  <2> HIDE DEF d, s
  <2> DEFINE e == CommandEnd(d, s, answer)
             f == PostRequest(e, s /\ (answer = "ok" \/ counts))
  <2>4. Done(f) /\ (Repaired(d, f) \/ Started(f))
    BY <2>1, <2>2, EndRepairs
  <2>5. e \in Devs
    BY <2>2, <2>3, CommandEndTold
  <2> HIDE DEF e
  <2>6. f \in Devs
    BY <2>5, PostRequestTold
  <2> HIDE DEF f
  <2>7. Repaired(dev, f) \/ Started(f)
    BY <2>2, <2>4, RepairedTransitive
  <2> QED
    BY <1>2, <2>1, <2>4, <2>6, <2>7, DoneRepairs DEF Command
<1>3. ASSUME NEW command \in Commands, CommandElsewhere(command) PROVE RightAgain'
  <2> DEFINE d == WriteCb(dev, command)
  <2>1. Done(d) /\ UNCHANGED files /\ up
    BY <1>3 DEF CommandElsewhere, Torn, PowerLoss, lists
  <2>2. d \in Devs /\ Repaired(dev, d)
    BY <1>1, WriteCbTold, WriteCbRepairs
  <2> HIDE DEF d
  <2> QED
    BY <2>1, <2>2, DoneRepairs
<1>4. CASE DeleteFile
  BY <1>4 DEF DeleteFile
<1>5. CASE PackageDownloadHandler \/ Start \/ Stop \/ Received \/ HandlePackageDownloader
  BY <1>5 DEF PackageDownloadHandler, Start, Stop, Received, HandlePackageDownloader
<1>6. CASE TransferBreaks \/ ClientDeletes \/ Register \/ Crash \/ UNCHANGED vars
  BY <1>6 DEF TransferBreaks, ClientDeletes, Register, Crash, vars
<1> QED
  BY <1>2, <1>3, <1>4, <1>5, <1>6 DEF Next

\* The next command that runs to its end and changes object 33406 or the workspace
\* leaves the state and the URL in agreement, and no transfer without room, wherever in
\* a handler the power was lost before, and whether or not the servers of the files
\* answer.
THEOREM RepairCorrect ==
  ASSUME {"nameOnly", "refused", "failsElsewhere", "deleteFails"} \cap Deviations = {}
  PROVE  Spec => CommandRepairs
<1>1. Init => TornInv
  BY TornInit
<1>2. TornInv /\ [Next]_vars => TornInv'
  BY TornStep
<1>3. TornInv /\ [Next]_vars
        => [requests' # requests /\ up' /\ (dev'.ws # dev.ws \/ dev'.ft.state # dev.ft.state)
              => BusyWithUrl' /\ (Cardinality(files') <= MaxFiles => RoomForTransfer')]_vars
  BY RepairStep DEF RightAgain
<1> QED
  BY <1>1, <1>2, <1>3, PTL DEF Spec, CommandRepairs
=============================================================================
