# TLA+ models and proofs for LwM2MCore

LwM2MCore is the client side of LwM2M for a device: it keeps DTLS and CoAP sessions with a
bootstrap and a device management server, exposes the device's objects to them, and downloads,
verifies and installs update packages. This directory holds models of it, the TLC runs that check
them on small instances, and theorems that TLAPS proves for every instance.

All paths below are relative to the repository.

## 1. Inventory

| component | source | state it keeps | operations |
|---|---|---|---|
| Package downloader | `packageDownloader/lwm2mcorePackageDownloader.c` | `PkgDwlObj` (state, retry counter, offset, temporary buffer, results), `PkgDwl` | `lwm2mcore_StartPackageDownloader`, `HandlePackageDownloader`, `PackageDownloaderReceiveData`, `RequestDownloadRetry`, `SuspendDownload`, `AbortDownload`, `GetDownloadInfo`, `downloader_PackageDownloadHandler` |
| DWL parser | same file | `DwlParserObj`: expected section and subsection, lengths, hash and CRC contexts | one parser per subsection, `HashData`, `CheckCrcAndSignature` |
| Workspace | `packageDownloader/workspace.c` | the persisted record of a download: URL, size, offset, remaining binary data, hash context, object 5 state and result; `PkgDwlWorkspace` is a copy in RAM | `ReadPkgDwlWorkspace`, `WritePkgDwlWorkspace`, `DeletePkgDwlWorkspace` |
| HTTP downloader (platform) | `examples/linux/downloader.c` | `DownloadStatus`, the connection | `downloader_GetPackageSize`, `downloader_StartDownload`, `downloader_GetLastDownloadError`, abort, suspend |
| Package storage (platform) | `examples/linux/secureDownload.c`, `examples/linux/update.c` | the stored bytes | `lwm2mcore_WritePackageData`, `lwm2mcore_GetPackageOffsetStorage`, start and resume of the download thread |
| Firmware update agent | `packageDownloader/update.c` | object 5 state and result, in the workspace | `lwm2mcore_SetUpdateAccepted`, `SetUpdateResult`, `SetDownloadError`, getters and setters |
| Download control | `lwm2mcorePackageDownloader.c`, `objectManager/handlers.c` | the abort or suspend request, the threads | `omanager_SetUpdatePackageUri`, `lwm2mcore_AbortDownload`, `downloadManager_ResumePackageDownloader` |
| File transfer | `packageDownloader/fileTransfer.c`, `handlers.c`, `objects.c` | state and result of object 33406, the list of files (33407); the workspace is that of the downloads | writes of object 33406, the command-end and post-request handlers, `lwm2mcore_UpdateFileTransferList`; compiled with `LWM2M_OBJECT_33406` only |
| Session manager | `sessionManager/lwm2mcoreSession.c` | session context, status of the last event, registration ids, post-request handlers | connect, disconnect, step, push, event dispatch |
| DTLS connection | `sessionManager/dtlsConnection.c` | the connection list, the retransmission state | handshake, send, rehandshake, close |
| Object manager | `objectManager/objects.c`, `objectsTable.c`, `handlers.c` | registered objects and handlers | resource read, write, execute, notify |
| Bootstrap and access configuration | `objectManager/bootstrapConfiguration.c`, `aclConfiguration.c` | linked lists of servers, credentials and access rights, persisted | add, remove, store, restore |
| CoAP handlers | `objectManager/lwm2mcoreCoapHandlers.c` | the pending request | block transfers, responses |
| Security, Linux example, tests | `security/`, `examples/linux/`, `tests/` | | conversions, an example platform, stubs |

How they interact. A write of the package URL (`/5/0/1`) reaches `omanager_SetUpdatePackageUri`,
which stores the URL in the workspace and arms a timer. The timer runs
`downloader_PackageDownloadHandler`, which asks the server for the package size and tells the client
by an event. The client accepts the download and starts a thread that calls
`lwm2mcore_StartPackageDownloader`. From there the state machine INIT, DOWNLOAD, PARSE, STORE, END (or
SUSPEND, ERROR) runs in a loop, `lwm2mcore_HandlePackageDownloader`, that a handler leaves by
`endOfProcessing`: once the request is sent the loop is left, and it is entered again for each piece
of data the client passes to `lwm2mcore_PackageDownloaderReceiveData`. Binary data go to the platform
(`lwm2mcore_WritePackageData`), and after each chunk the workspace is written, so that a later session
can resume. The object 5 state and result are in that workspace too, and written by
other functions.

Hard behaviours: a session may be interrupted at any point (network, suspension, power loss) and
resumed from two stores, the workspace and the platform's, written one after the other; the platform
may be late (it holds less than it was given); the copy of the workspace in RAM may be stale; data come
in pieces that do not respect the subsections; retries restart from a position that must match what is
buffered; every exit of a handler must either make progress or leave the loop.

What makes each component correct:

- package downloader and parser: the position, the expected subsection and the counters always agree;
  every byte of the binary is stored once, in place; each byte is digested once; DOWNLOADED is only
  reported for a whole, verified binary; a suspended download can be resumed; each call returns, and a
  session ends;
- workspace: what is stored is consistent with what the platform holds, across power losses;
- firmware update agent: object 5 follows the states of the LwM2M specification, and the result of an
  installation reaches the server, across power losses;
- download control: an abort or a new URL leaves at most one download, and nothing of the old one;
- session and DTLS: each connection attempt ends in one session event, and no handler is lost;
- file transfer: a handler that runs to its end leaves object 33406 busy exactly while a transfer is under way,
  and an end with a result; the server sees the files the client has; what a power loss inside a handler leaves
  is put right by the next command, and its URL is used up;
- configuration: what is stored is what is in memory and what is listed, and a power loss leaves a
  configuration that was stored as a whole;
- object manager: an answer has what the platform has, and CHANGED means the platform took it.

The hazards, each at its line, with the properties that cover them, are in `PROJECT.json`.

## 2. Modules

| module | what it is |
|---|---|
| `PackageDownloader` | the state machine, the parser, the workspace, and the environment they meet |
| `MCPackageDownloader` | package layouts and environments for TLC |
| `PackageDownloaderProofs` | type correctness and the position invariant, for every instance |
| `PackageDownloaderStored` | what is stored and reported, for every instance |
| `Object5` | abstract: what the state and the result of object 5 promise to a server |
| `FwUpdate` | a firmware update from its URL to its result, write by write; implements `Object5` |
| `MCFwUpdate` | sets of faults for TLC |
| `FwUpdateProofs` | types, refinement, the URL a state has, and the end and result of an installation, for every instance |
| `DownloadControl` | the main thread and the download thread over the workspace they share |
| `DownloadControlProofs` | nothing of an aborted package comes back, what is downloaded or resumed is one package, for every instance |
| `FileTransfer` | file transfers, the handlers a command leaves, the list of files |
| `FileTransferProofs` | the busy object, its result, the room, the list of files and what a command repairs, for every instance |
| `Session` | the session manager, its DTLS connections, and the pushes that restart a session |
| `SessionProofs` | the step timer, the list of the DTLS context and what is announced, for every instance |
| `Configuration` | the servers and access rights in memory, in the storage and in wakaama's lists |
| `ConfigurationProofs` | storage and memory agree, the keys, starts, lifetimes and access rights, for every instance |
| `ObjectsTable`, `Objects` | the tables of resources; reads, writes and executions over them |
| `ObjectsProofs` | the answer to a read, its values, and what "changed" means, for every instance |
| `Collections` | elements of a list at some positions, and two functions as one |
| `MC...` | the instance of each for TLC |

### PackageDownloader

A firmware package is given by `Start`: the position of each of the eleven subsections the parser
expects, in order: the prolog, comments and header of UPCK; the prolog, comments, header, binary data
and padding of BINA; the prolog, comments and signature of SIGN. Sizes are arbitrary, comments may be
empty or longer than the temporary buffer.

Data are positions: a buffer is where in the file it starts and how long it is, so "stored in place"
and "digested once" can be told without any byte. The hash context is the length of the prefix it
digests, or `BAD` once a byte was digested twice or out of place.

| variables | code |
|---|---|
| `pc` | whether the loop of `lwm2mcore_HandlePackageDownloader` runs (`loop`), was left (`wait`), or no session exists (`off`) |
| `state` ... `updateOffset` | `PkgDwlObj` and `PkgDwl.data`; `data.isResume` is `updateOffset > 0` |
| `dwlPos`, `tmpOk` | the content of the received data and of `tmpData` |
| `part`, `remaining`, `sha` | `DwlParserObj` |
| `ws`, `cache` | the persisted workspace, and `PkgDwlWorkspace` |
| `xfer`, `srvPos` | the HTTP transfer |
| `written`, `storedOk`, `flushed` | the platform's storage; `flushed` is the progress it reported last |

Each handler of the state machine (`PkgDwlInit` ... `PkgDwlSuspend`) is one action, with all that it
stores. A power loss may come between any two of them; inside `PkgDwlStore` and `PkgDwlEnd`, the two
handlers with several persistent writes whose order matters, it is `TornStore` and `TornEnd`. The other
actions are the calls of the client and of the server, and the environment:

- `StartPackageDownloader(fresh)`: a fresh start has the platform drop its data; a resume takes up from
  what the platform reports, any progress between the last report and what it was given;
- `ReceiveData`, `TransferBreaks`, `RequestDownloadRetry`, `HandlePackageDownloader`: a client that
  feeds data in pieces of any length in `Chunks`, requests a retry after a broken transfer, and calls
  the handler when the transfer is complete or a fault was reported. The Linux example calls only the
  first; the interface documents all of them;
- `SetUpdatePackageUri`, `PackageDownloadHandler`: a new URL, and the timer that asks the size.

`LastErrors`, `HttpErrors` and `Faults` choose the environment: what the platform reports when the
retries are used, what HTTP codes failing requests leave, and which faults happen (`FaultKinds`).

Abstractions a reader should know of:

- a subsection read out of its place (after a retry that lost the alignment) may be accepted or
  rejected, and if it is accepted its lengths are those of the package;
- a package with sections in another order, or with contradictory lengths, is not modelled; nor are
  software packages (file transfers are in `FileTransfer`), third-party FOTA, failing reads and
  writes of the workspace, and progress events;
- a new URL and the timer come between sessions only: aborting under a running thread is in
  `DownloadControl`;
- the synchronous delivery of the Linux example, which feeds data inside
  `downloader_StartDownload`, is not modelled: the interface and the comment at
  `lwm2mcorePackageDownloader.c:2406` have it asynchronous.

### FwUpdate and Object5

The state and the result of object 5 are two fields of the workspace. They are written by the handlers
of the server's writes (`omanager_SetUpdatePackageUri`, `omanager_ExecFwUpdate`), by the download, by
the client (`lwm2mcore_AbortDownload`, `SetDownloadError`, `SetUpdateAccepted`, `SetUpdateResult`), and
depend on `updateType`, which object 9 writes too. Each of these functions reads the workspace, changes
a field and writes it, up to five times in a row. In `FwUpdate` each persistent write is an action, and
`pc` is the name of the next write of the running call; `PowerLoss` may come before any write that
`Faults` names, and before every call.

| variables | code |
|---|---|
| `ws` | `PackageDownloaderWorkspace_t`: `updateType`, `url`, whether `packageSize` is known (`sized`), `fwState`, `fwResult` |
| `registered` | whether the bootstrap configuration holds registration IDs |
| `request` | what the client keeps in non-volatile memory of `lwm2mcore_LaunchUpdate` (`update.h:203-206`): received, accepted (`installing`), installed |
| `pc`, `arg` | the running call: its next write, and the URL or error it will store |
| `timer`, `thread`, `online` | `LWM2MCORE_TIMER_DOWNLOAD`, the download thread, the session |

A download is reduced to what it writes here: `PkgDwlInit` resets the result
(`StartPackageDownloader`), `PkgDwlDownload` sets the state (`Downloading`), `PkgDwlEnd` sets DOWNLOADED,
or the error and then the state, and the end event erases the URL. Its own states are those of
`PackageDownloader`, including the workspace copy in RAM.

`Object5` is what a server may see: a new URL resets, a download starts in IDLE without an error, only a
download without an error ends in DOWNLOADED, only a downloaded package is updated, and the result of an
installation is shown once, after UPDATING. `due` tells that an installation has ended and its result is
not stored yet; the mapping is `state <- ws.fwState`, `result <- ws.fwResult`, `due <- pc = "outcome"`.

Abstractions a reader should know of:

- calls do not overlap: threads that do are in `DownloadControl`;
- the client: it keeps the request as `update.h` asks, forgets a request whose acceptance is refused,
  and reports an installation before it opens a session. `lwm2mcore_CleanStaleData` is taken to drop
  the request that a new package makes obsolete, as its description says. The Linux example accepts and
  reports an update at once in `lwm2mcore_LaunchUpdate`, without a reset, and its `CleanStaleData` is a
  stub: it is not the client of this model;
- third-party FOTA, `LEGACY_FW_STATUS`, failing reads and writes of the workspace, and
  the state of object 9 itself, which the platform keeps, are left out.

### DownloadControl

`PackageDownloader` lets the main thread act between sessions only. `DownloadControl` has the two
threads: `main` is what is left of the handler that the main thread runs, step by step, and `pc` where
the download thread is. They share the workspace `ws`, its copy `cache` and the download `status`. A
package is `Chunks` buffers and a signature, and what is stored tells whose data it is: `<<u, i>>` is
the i-th buffer of package `u`, so that a file with data of two packages can be told.

| actions | code |
|---|---|
| `WriteUrl`, `WriteEmptyUrl`, `MainStep` | `omanager_SetUpdatePackageUri` and `lwm2mcore_AbortDownload`, one access to the shared state after the other |
| `PackageDownloadHandler`, `Resume`, `Suspend` | the download timer, `downloadManager_ResumePackageDownloader`, `lwm2mcore_SuspendDownload` |
| `PkgDwlInit` ... `DownloadEnded` | the download thread, with the reads and writes of the workspace (`RefreshCache`, `StoreWorkspace`) apart |
| `CheckStatus`, `TransferBreaks` | the loop of `examples/linux/downloader.c` |

`wanted` (the URL the server asked for and did not take back) and `aborted` only serve the properties.
`Overlaps` names the orders of steps an instance allows. The instance of the runs has none of them: a
handler of one thread then does not fall between two accesses of the other to the workspace, but the
abort and the thread still interleave at every other step (section 5 tells what each overlap breaks).
Two download threads at once, which would share the parser without a lock, are not modelled;
`lwm2mcore_CleanStaleData` drops the file, as its description asks.

### FileTransfer

A command of the server is one or two writes of object 33406, or a package URI of object 5. `Command`
is the whole of it: the writes (`WriteCb`), the command-end handler (`TreatInfo`: the client's answer to
`lwm2mcore_FileTransferRequest`, and the URL that becomes the package URL of the workspace), the
response, and the post-request handler (`CheckFileTransferPossible`). `CommandElsewhere` is a command of
a server whose connection is not the first of the list, where the handlers are set but do not run. `dev`
is what these handlers read and write, a record, so that they are operators applied to it in the order
of the calls; `files`, `known`, `listed`, `seen` are the list of files of the client, of
`FileTransferListPtr`, of wakaama and of the server.

A handler stores its changes one by one, in two files (the workspace of `fileTransfer.c`, and that of
`workspace.c`). Each operator that stands for a function of the code goes through its writes in the order of
the code, and `Stored` adds what the storage holds after each of them to `dev.passed`. An action then either
takes its handler to the end (`Done`), or, with the deviation `"torn"`, loses the power after any of these writes
(`Torn`): the storage is one of `dev.passed`, and what was in memory is gone, the handlers for the end of the
command among it. `Crash` is a power loss between handlers. A write is whole or not done. The states a
handler goes through are not steps of their own: a read of object 33406 that comes between two writes of the
download thread (IDLE and SUCCESS) is only in section 5.

Assumptions: timers can be armed; no command comes between the download timer and the start of the
thread; after all data of a file the client calls `lwm2mcore_HandlePackageDownloader` once more, which
`PKG_DWL_STORE` of a file waits for (nobody does so in the Linux example). The inputs in
`DeviationKinds` other than `"torn"` are left out of the run because the code does not keep its properties then
(section 5).

### Session

One action per handler: the step timer, a received packet, a call of the application; the step handler
is cut where it hands over to wakaama (`pc`). wakaama and tinydtls are external and are modelled by the
calls the code makes to them, the callbacks it implements for them, and the sequence diagrams of
`doc/lwm2mcore.dox` 371-505 and 639-743.

| variables | code |
|---|---|
| `open`, `timers` | `SocketConfig`, the armed timers |
| `state`, `request` | the state of wakaama and the exchange it has under way |
| `conns`, `app`, `peer` | the servers of `connListPtr` (at most one connection each), the list the DTLS context reads, the state of each channel |
| `dmCreds`, `regId` | the device management server and its registration ID in the configuration |
| `bootstrapSession`, `status` | `BootstrapSession`, and the static status of `smanager_SendSessionEvent` |
| `told` | the session the application last heard of |
| `kept`, `closing` | pushes that still wait, and a disconnection that was asked for |

`deregister` is the build flag `LWM2M_DEREGISTER`; both builds are explored. Left out: the content of
messages, failing platform calls, sessions without DTLS, a second device management server; what the
handlers of a finished client do, which is undefined.

### Configuration

`mem` is what the client has in memory (`BsConfigList`, `AclConfigList`, the instances wakaama lists,
the session), `disk` the platform's parameters, each with its size, and the servers whose keys the
platform holds. A handler computes the sequence of storages it goes through, one per write, and `Do`
takes it to the end or loses the power after any of them. Sizes are compared with contents as in
`omanager_LoadBootstrapConfiguration`, so that a torn configuration is refused, adapted, replaced or
read as the code does. `wished` is the lifetime that was accepted last. The module models objects 0, 1
and 2 with the creation, refusal and deletion of instances in wakaama's lists (`objects.c`), the
bootstrap, the registration IDs and the deletion of the credentials. The loops that unlink elements of a list are
`Selected`, the elements at a set of positions in their order, which is defined without recursion.

### ObjectsTable and Objects

`ObjectsTable` is data: the table of `objectsTable.c`, and for each resource the kind of its handler in
`handlers.c`: which C type or buffer it has, with which formatter, and over how many instances.
`Objects` is `ReadCb`, `WriteCb` and `ExecuteCb`, one resource, or one value of a resource, per step, with
the conversions of `utils.c` and `objects.c` (numbers in 1, 2, 4 or 8 octets, text, base64, integers, octets)
done on numbers modulo the size of their type. `held` is what the platform has, `calls` what it was told to
set or execute. Writes of objects 0, 1, 2, 5 and 33406 change state that the other modules have. Instance
0 only: the range checks of the handlers become `request.found`. The sign of `char` is that of the build
(`charSigned`). Not modelled: base64 of an empty text, a write without data.


## 3. Runs

### PackageDownloader

`MaxSessions` bounds the number of sessions; after the last one the model stops, so deadlock is not
checked. `TmpMax` is 3 instead of 4096 and `DWL_RETRIES` 2 instead of 5: with subsections of 0 to 5
bytes, data arrive below, at and above the length of a subsection and of the buffer, and a retry can
be the last one or not. Pieces of 1, 3 and 6 bytes split a subsection, end one, and span several.

| run | question | bounds |
|---|---|---|
| `safety` | Do position, parser, workspace and platform agree over three sessions of interruptions, retries, late platforms and power losses between handlers, and is what the server reads right? | 107 385 states |
| `faults` | With every fault enabled and comments larger than the buffer, does every call return, if a failed last retry has an error, and does a session of a client that follows the protocol come to an end or a suspension? | 215 714 states |

Three sessions are needed for an interruption during a resumed session and one more to see its
effect. `safety` leaves out the faults of `Faults` and an HTTP client that fails without any response,
because the code does not keep the properties then; the position is right with all of them, which
`PositionCorrect` proves (section 4). One run is expected to find a violation, and contradicts a
statement of the documentation that `PROJECT.json` quotes:

| run | what happens |
|---|---|
| `noResponse` | the size request fails without a response: DOWNLOADED is reported for nothing |

The other faults that `safety` and `faults` leave out, with what TLC finds when the constant of the run
is changed as the first column tells:

| change | property violated | what happens |
|---|---|---|
| `safety`, `Faults = {"tornStore"}` | `DownloadedMeansStored` | power loss after the first chunk is stored and before its offset is: the next session appends to it |
| same | `ResumeIsAccepted` | power loss between the two writes of a later chunk: the platform is ahead of the workspace and the resume is refused |
| `safety`, `Faults = {"tornEnd"}` | `DownloadingIsVisible` | power loss in `PkgDwlEnd`: the next session reads the old update state into its copy of the workspace and writes it back |
| `safety`, `Faults = {"noLength"}` | `DownloadingMeansOnGoing` | the size is asked again during a download, and refused: DOWNLOADING for ever |
| `faults`, `LastErrors = {"OK"}` | `HandleReturns` | a platform that reports no error after the last retry, as `examples/linux/downloader.c:1251` does: the loop never ends |

The passing runs allow states in which data were digested or stored wrongly (section 5), so that
`DownloadedMeansStored` says that such data are never reported as a downloaded package.

Fairness. `FairSpec` has weak fairness of the handlers: the thread that entered the loop of
`lwm2mcore_HandlePackageDownloader` runs until it leaves it. `ClientSpec` adds the client: while a
transfer is open data come or it breaks (an HTTP client has a timeout), a broken one is retried, and a
complete or failed one is handled; this is what the interface asks of a client, and nothing more is
assumed: the client may end the session at any time, and data may break for ever.

### FwUpdate

Two firmware URLs (a second one replaces the first), one software URL and two download errors. Nothing
is counted, so these runs explore every behaviour of the instance, of any length.

| run | question | faults | states |
|---|---|---|---|
| `object5` | Is what the server reads what `Object5` allows, can a downloaded package be installed, has DOWNLOADING a package, is a stored URL one to download, and is each result readable? | a failing timer, and power losses before all writes but the four in the table below | 2 409 |
| `losses` | Does every update in UPDATING end, and can the client always end it? | power losses before all writes but `dwlErase` | 2 459 |
| `allFaults` | Does every execution get an answer, whatever happens? | all | 18 630 |

The faults that `object5` leaves out (`HarmlessFaults` in `MCFwUpdate`), with what TLC finds when one is put
back:

| fault | property violated | what happens |
|---|---|---|
| `"abortState"` | `DownloadingHasUrl` | power loss inside `lwm2mcore_AbortDownload`, after the URL is erased: DOWNLOADING without a URL |
| `"errState"` | `DownloadingHasUrl` | power loss inside `lwm2mcore_SetDownloadError`: the same |
| `"dwlErase"` | all but `DownloadingHasUrl` | power loss between DOWNLOADED and the erasure of the URL: the package is resumed, even over UPDATING |
| `"outcome"` | `OutcomeReported` | power loss inside `lwm2mcore_SetUpdateResult`: the result is lost, the call is refused when repeated |
| `"interrupt"` | `OutcomeReported`, and `UpdatingCanEnd` of `losses` | a URL, or an empty one, while UPDATING: the result of the installation is refused, and the note of the client is dropped before the state changes |
| `"software"` | all | the update type changes before the abort, which then resets object 9 instead of object 5 (`handlers.c:2349`), or before the reset, so that the result of the firmware is dropped with a success code (`update.c:625`) |

Fairness. `FairSpec` has strong fairness of the remaining writes of a call (`Continue`), of the return of
the acceptance, and of the client's acceptance, installation and report. Weak fairness would not do: a
power loss disables a call in progress, and the client starts again at the next boot. The assumption is
that the power is not lost in every call, and that the client "treats the install request", as
`update.h:203-206` has it. Nothing is assumed of the server, the download or the sessions.

### DownloadControl

Two packages of two buffers; three URLs (two in `abortUndone`) written or taken back, two suspensions or
broken transfers, one power loss: a download can be aborted, replaced by another or by itself, broken,
resumed and completed in one behaviour.

| run | question | states |
|---|---|---|
| `control` | Does nothing of an aborted package come back, does a resume go on from data of its own package, is DOWNLOADED a whole package, and is every URL dealt with? | 55 801 |
| `abortUndone` (violation) | The server aborts while the thread has the end of the package: it goes on to `PkgDwlEnd`, and DOWNLOADED is stored after the IDLE of the abort | |

Fairness. The download thread is scheduled, and a call of the transport returns (the Linux example
receives without a timeout: this is an assumption on the platform); a handler ends, the timer expires
and the device registers again. Nothing is assumed of the server, the client or the power.

### FileTransfer

Two URLs, room for two files of three, three commands (of up to two writes, good or refused, from either
server), two broken transfers or power losses.

| run | question | states |
|---|---|---|
| `files` | Wherever in a handler the power is lost: does the server see the client's files, does a handler that makes object 33406 idle leave a result, does it take a loss to make the object, the workspace, the thread and the room disagree, does the next command put that right, and is a URL that a loss left used up? | 84 055 |

The power may be lost between any two writes of a handler, so no property says that object 33406 and its URL
always agree: they are two writes, and do not. `Agreed` is what the handlers work for, that the object is busy
exactly while the workspace has the URL of a file, that the thread downloads that URL, and that there is room for
what is transferred. The properties say how far that goes. `HandlersAgree`: only a loss inside a handler ends it;
`CommandRepairs`: the next command that runs to its end and changes the object or the workspace restores state, URL and
room; `UrlIsDealtWith`: a URL that a loss left to an idle object is resumed and used up without any command. An
object that a loss left busy without a URL stays so until that command (section 5). A command that changes neither
object nor workspace, because the client answers that it has the file, repairs nothing; and a command looks for exactly
`MaxFiles` files (`fileTransfer.c:298`), so that `CommandRepairs` promises room only while the client has no more
than that.

Two losses are enough: one leaves object 33406 and the workspace apart, and another one hits the command, the
download or the resume that deals with it. The mutant of `UrlIsDealtWith`, a resume that trusts the state of
object 33406, is only caught by the losses inside a handler: without them state and URL agree.

Fairness as above; and the client finishes what was received.

### Session

Both builds, from any stored configuration; two connections, and three troubles among all kinds but a
clock that goes back (section 5). A trouble may hit any exchange, so three reach a bootstrap that is
given up after a push was refused after a handshake was resumed.

| run | question | states |
|---|---|---|
| `session` | Is the step timer armed whatever happened, is each registered session announced, with its type, does the DTLS context find its connections, and does a session get registered, end or fail audibly? | 8 448 |

Fairness. An armed timer fires and its handler runs on (weak); a server that can answer does so in the
end (strong, since the handler takes the processor again and again): troubles are bounded by `MaxFaults`.

### Configuration

Two servers, two instances of object 2, one lifetime that a server sets and one that a bootstrap gives,
one power loss between any two writes of any handler, refused resources, an upgrade from the file of the
previous version, a configuration that shrinks. One power loss is enough for the properties of one
restart; a second one in the recovery is left out.

| run | question | states |
|---|---|---|
| `config` | Do the storage, the memory and the lists agree outside a bootstrap, is an accepted lifetime kept, does a restart find one whole configuration whose servers have their keys, and the bootstrap server again? | 153 294 |

Fairness. A client that is off is started, and one that has lost its bootstrap server, which can reach
nobody, is ended and started again.

### Objects

An octet has four values, so that the numbers next to each boundary of 1, 2, 4 and 8 octets (`MCNumbers`) are few; lists
have up to three elements; five octets of buffer, the size of no number, make every length check fail
and succeed. Each resource of each table is read with every outcome of its handler, alone; a whole object
with none, an error or a value for each resource; writes have one or two resources of one or two values
in each form. The lengths of texts and octets (`MCTextLengths`) are none, each residue of the groups of base64, and
one too many.

| run | question | states |
|---|---|---|
| `objects` | Has an answer what the platform has, does CHANGED mean the platform took every value as meant, and does every request get an answer? | 176 534 |

`Misread` and `Lossy` name the values that the code does not carry (section 5): `ReadIsFaithful` and
`ChangedMeansTaken` say that there are no others.
Fairness: a handler runs to its end.


## 4. Proofs

From `LayoutAssumption`, `BoundsAssumption` and `EnvironmentAssumption` only (subsections are in order,
the binary is not empty and not first; buffer, retries, chunks and environment are arbitrary):

- `TypeCorrect`, `PositionCorrect` (`PackageDownloaderProofs`): `TypeOK` and `PositionMatchesRemaining`
  in every reachable state, with every fault allowed. The position is computed from three places: the
  RAM counters, the workspace and the platform's progress. The invariant `IndInv` therefore adds what the
  workspace keeps between sessions (its offset is the position its remaining data give) and what the
  parser is at in each state of the machine (in DOWNLOAD after a retry, at the place of the last
  subsection), without which a resume would start anywhere.

- `OnGoingCorrect` (`PackageDownloaderProofs`): `DownloadingMeansOnGoing`, when the server tells a length for
  each package (`"noLength" \notin Faults`, shown necessary in section 5), with every other fault allowed. The size request erases
  the URL when it fails; `OnGoingInv` says that it is made only before the download began, because the
  workspace, and the copy in RAM that is written back as a whole, know the size as soon as they have both a URL and
  a download.

Under `NoTornWrite` (no power loss inside `PkgDwlStore` and `PkgDwlEnd`, an HTTP answer to a
failing request), which the run `noResponse` and the faults `tornStore` and `tornEnd` show to be necessary:

- `ResumeAccepted`, `DownloadingVisible`, `DownloadedCorrect` (`PackageDownloaderStored`). The
  invariant `StoredInv` relates, in each state of the machine, what the platform holds to the workspace
  (`StoredLenInv`), the digest to the position and the replay gap (`DigestInv`, `ReplayInv`), and the
  update result to the end of the session (`EndInv`, `ReportInv`). The heart of `DownloadedCorrect` is
  that a correct digest implies data in place: a byte that is stored out of place was also digested
  out of place, and `BAD` never becomes good again within a package.

From `ValuesAssumption` only (`FwUpdateProofs`), for any sets of URLs and errors:

- `TypeCorrect`: `TypeOK`, with every fault allowed.
- `Object5Implemented` and `InstallableCorrect`, under `NoLostErase` (object 9 is not used, and the
  power is not lost between DOWNLOADED and the erasure of the URL: the faults `software` and
  `dwlErase` show why). The invariant `Object5Inv` tells which states a stored URL allows (`UrlInv`),
  that the timer runs in IDLE only and the thread for a stored, sized URL only (`ThreadInv`), and what
  each remaining write of a call finds (`WriteInv`). Without `UrlInv` a resumed download could set
  DOWNLOADING over any state.
- `StoredUrlCorrect`: `StoredUrlIsWanted`, under `NoLostErase` too: it is `UrlInv` between two calls.
- `DownloadingCorrect`: `DownloadingHasUrl`, under `NoLostUrl`, which also excludes a power loss inside
  `lwm2mcore_AbortDownload` and `lwm2mcore_SetDownloadError` (`abortState`, `errState`). A call erases
  the URL before it changes the state, so the property is not inductive; `UrlLostInv` says that these two
  calls are the only ones, and have the write of the state still to do.
- `UpdatingCorrect`: `UpdatingCanEnd`, under `NoInterrupt` (no URL is written while UPDATING). `UpdatingInv`
  adds that no call that drops the client's note runs in UPDATING, and that the note of a reported
  installation is given up after the state was: any of these calls may be cut by a power loss.
- `OutcomeCorrect`: `OutcomeReported`, under `NoLostOutcome`, which also excludes a server that
  interrupts the installation and a power loss between the state and the result (`interrupt`,
  `outcome`). `InstallInv` adds that an installation is on-going from the acceptance to the report,
  with no session, timer or thread that could disturb it.

From no assumption on the constants (`SessionProofs`), whatever troubles occur and however often, in both builds:

- `StepsCorrect`: `StepsWhileOpen`, which is inductive as it stands: every handler that stops the step
  timer closes the session or arms the timer again before it ends.
- `ContextCorrect`: `ContextHasList`. A list that was lost when a handshake was given up is found again by the
  following step of the same bootstrap; what could end that bootstrap first is a push that was refused or
  expires, and the new bootstrap has forgotten it (`~kept`). `ContextInv` says so: the list is lost in a bootstrap
  only, and until the exchange of that bootstrap has begun to succeed no push waits for an answer.
- `TypeOfStatusCorrect`: `TypeIsTrue`. The type is read from `BootstrapSession`, which is set and cleared by
  events; `PhaseInv` relates it to the state of wakaama and to the credentials, over every way back to the
  initial state.

Under `NoClockBack` (no clock that goes back, which is shown to break it in section 5):

- `AnnouncedCorrect`: `RegisteredIsAnnounced`. A session is not announced at its registration alone: with a
  registration ID it is only updated, and then announced on the condition that the last event was a
  handshake. `AnnounceInv` says that a registration ID is that of a session that was announced, or that the
  device is `Reopening` one: nothing was announced since it connected, no channel is open, and once the update
  is under way its handshake is the last event. `PhaseInv` is needed to exclude late answers.

Under `NoOverlap` (`DownloadControlProofs`: no step of one thread falls between two accesses of the other one to
the workspace; a late thread and a power loss anywhere are allowed), for any number of packages, buffers,
requests, stops and power losses:

- `WantedCorrect`: `OnlyWantedIsStored`. The thread stores its whole copy of the workspace over the stored one, so
  `WantedInv` speaks of both: between two handlers each has the wanted URL or none. Within a handler it tells
  from how many steps are left which of the two, and of what the handler erased, has no URL any more
  (`AbortInv`, `WriteInv`).

With no overlap at all (`Overlaps = {}`: a URL is not written under a late thread, and the power is not lost
between the file and the workspace; section 5 shows that each overlap is needed):

- `WholeCorrect`: `DownloadedIsWhole`, and `ResumesCorrect`: `ResumesItsPackage`. A resume believes three things
  that are written apart, the file, the offset and the digest of the workspace, and the URL. `DataInv` says
  that they tell the same prefix of one package (`InSync`, `TransferInv`), that the copy that will be stored has
  no state of an earlier package (`CopyInv`), that a new URL finds the file dropped (`NewUrlInv`), and that a
  whole package has no URL that would resume it (`WholeInv`).

From `FileTransferAssumption` only (`FileTransferProofs`: any URLs, files, room, commands and faults), with the
deviations that are shown in section 5 to break the property left out:

- `ListCorrect`: `ServerSeesList`, unless the client refuses to delete a file. `ListInv` adds that an
  unregistered device lists nothing: what was deleted by the client meanwhile is not listed at the next registration.
- `ResultsCorrect`: `EndsWithResult`, unless a server does not answer (`"noAnswer"`). It is about handlers that run
  to their end: between two writes of `PkgDwlEnd` a good file is IDLE without its result. A command runs several
  handlers, each of which may set the state and the result; `Told` is the relation that each of them keeps and that
  composes: an object that is idle after a handler has a result or was not touched.
- `AgreementKept`: `HandlersAgree`, under `Deviations \subseteq {"noAnswer", "torn"}`. `TornInv` is what holds
  wherever the power was lost: the record is one, the handlers left by a command have its URL (`HasInfo`), only a
  file transfer waits for the client, and the list is that of the client (`ListInv`, since the room is measured on
  the instances that are listed, not on the files). Under it `BusyInv` is `Agreed` taken apart for the handlers: who
  owns the workspace at each point of the download thread (`Coherent`), and that the room that was seen is still
  there when the file is stored (`Roomy`, with the bound of the list). `BusyStep` has one case per action, for
  steps in which no power is lost inside a handler.
- `AgreementCorrect`: `Spec => []Agreed` from the same lemma when no power is lost inside a handler
  (`Deviations \subseteq {"noAnswer"}`). The run allows such losses, so TLC does not check this one.
- `RepairCorrect`: `CommandRepairs`, with power losses between any two writes of any handler, and without the
  four deviations that break it (`"nameOnly"`, `"refused"`, `"failsElsewhere"`, `"deleteFails"`). No relation between
  state and URL can be assumed of what a command finds, only `TornInv`. Each handler settles what it finds or does
  not touch it (`Repaired`, which composes), or has started a transfer that was checked (`Started`).

From `ConfigurationAssumption` only (`ConfigurationProofs`: any servers, instances, lifetimes, refusals and
power losses between any two writes). A handler computes the sequence of storages it goes through, and the power
may be lost after any of them, so each lemma on a handler says that the whole sequence stays in a set of storages:

- `StoredCorrect`: `StoredAgrees`, `KeysCorrect`: `NewServersHaveKeys`, `StartsWholeCorrect`: `StartsWhole`, under
  `NoSecondAccount` (the bootstrap server adds no second account for itself). `StorageInv` says what any power
  loss leaves (`Sound`: a whole configuration, one of the previous version, or none, with a size that is missing
  only if there is none or an old one) and what the memory has besides (`Agree`: in a session a whole
  configuration, equal to the stored one outside a bootstrap). `Keyed` is kept by every storage of every
  handler: servers that were not known before have keys.
- `LifetimeCorrect`: `LifetimeIsStored`, when also no entry without a lifetime is added (`NoBareLifetime`). `LifeInv`
  says that the configuration with the accepted lifetime is stored with its size, since a restart would
  otherwise adapt or replace it.
- `AclCorrect`: `AclStoredAgrees`, when also no power loss tears the size of the access rights from their
  content (`NoTornAcl`). `AclInv` says that the stored rights have the stored size and number, and are those in
  memory but for a bootstrap, which stores them at its end.
- `ListedCorrect`: `ListedIsConfigured`, when also instances are created and deleted without a gap (`NoGaps`). A
  restart lists 0 to n-1 whatever the identifiers are, so `ListedInv` says that the identifiers of every list are
  0 to n-1 (`Gapless`), in memory and in every storage a power loss may leave (`Neat`, which holds for the file of
  the previous version too), and that the listed access rights are 0 to k-1 for some k that may be less than n: a
  refused instance stays in the list of the file and leaves that of wakaama. That n is the number of entries, which
  is stored apart, needs different identifiers (`DistinctIds`, by a bijection).

From `ObjectsAssumption` only (`ObjectsProofs`: any even number of values of an octet above three, and any room
above three octets that is not the size of a number: 256 and 4096 in the code), for both
signs of `char`. The properties speak of the answer only, so `IInv` says what the three loops keep:

- `AnswerCorrect`: `AnswerIsComplete`. `ReadCb` removes entries from the array that it goes through. `Reading`
  says that there is a rising `g` such that entry k is of the resource that was asked at `g[k]` (`Kept`); that
  those before `pos`, and no later ones, have been read; and that a resource without an entry was found without a
  value. At the end of the loop `g` is then the order that `Selected` picks.
- `FaithfulCorrect`: `ReadIsFaithful`. Each entry before `pos` is `Faithful`. What a handler leaves in the buffer is
  proved to come out of the message as the value it had, by the kind of handler (`NumberRead`, `ElementRead`): the
  boundaries of the sizes are symbolic there. That every handler of the table is of a kind that fits the type of its
  row is a fact about the table itself (`TableFits`, `WritersFit`).
- `TakenCorrect`: `ChangedMeansTaken`. The data of a request are what the formatter may be given (`DatumFits`);
  `Writing` keeps that each resource behind `pos` was taken, since `WriteCb` leaves a resource only when its last
  value was; `ValueMeant` is the way of a value from the message to the platform.

The numbers that the platform has and the server sends are any set of integers (`Numbers`), and texts and octets
have any lengths (`TextLengths`); TLC takes those next to a boundary. A request is one resource, a whole object, or
one or two resources to write: that is part of the model, though the invariant does not use how many they are.

The elements that a loop leaves in a list are `Selected(list, positions)`: position k of the result is the position
that has k of the positions up to itself. That these exist and are different is proved from the least exception
(`Least`, a well-founded order on the naturals), because the library's induction takes an operator.

Only model-checked:

- the liveness properties (`UrlIsDealtWith`, `HandleReturns`, `SessionSettles`, `UpdatingEnds`, `RequestSettles`, `Settles`, `NotStuck`,
  `BootstrapServerReturns`, `Answers`), which are beyond the prover. Every invariant and every action
  property that a passing run checks is proved, from the assumptions named above.

## 5. What the code does not keep

Each of these is a state the code reaches and a run leaves out by one of its constants. TLC finds the
violation that is named when the constant is changed; the others were read in the code while it was
modelled.

Download (`lwm2mcorePackageDownloader.c`):

- an interruption during the replay of data a late platform lost: the gap is computed from counters, so
  the data are digested twice and the CRC of a good package is refused (1251);
- a retry with a part of a subsection in the temporary buffer: the bytes are requested again behind the
  buffer, and what follows is stored out of place (3059);
- a network error while the size is asked suspends the download and erases its URL (744-773);
- `lwm2mcore_AbortDownload` joins its two setters by `&&`, so that the result of an earlier error stays (3299);
- the registration IDs are deleted when the update is requested, and stored again by a registration before
  the installation (`handlers.c:2730`).

`DownloadControl`, by the member of `Overlaps`:

| overlap | property violated | what happens |
|---|---|---|
| `"handler"` | `OnlyWantedIsStored` | the thread stores its copy of the workspace after the abort erased the stored one |
| `"late"` | `DownloadedIsWhole` | a URL is written while the thread of the old one has not ended: its last buffers go to the new file |
| `"torn"` | `DownloadedIsWhole`, `ResumesItsPackage` | the power is lost between the file and the workspace: the file is ahead |

`FileTransfer`, by the member of `Deviations`:

| deviation | property violated | what happens |
|---|---|---|
| `"nameOnly"` | `HandlersAgree`, `CommandRepairs` | a file name without a URI starts a transfer with the URI of the previous one, or none |
| `"refused"` | `HandlersAgree`, `CommandRepairs` | a refused request sets IDLE and stops the timer of the transfer, or download, in progress |
| `"full"` | `HandlersAgree` | the check of the room erases the URL of a firmware download that goes on |
| `"failsElsewhere"` | `HandlersAgree`, `CommandRepairs` | the handlers are left on the first connection, and run after a later command of another server (`lwm2mcoreSession.c:2067, 2094`) |
| `"half"` | `HandlersAgree` | an answer that breaks off after a header that says 200 sets no result: the object stays busy (565-568) |
| `"noAnswer"` | `EndsWithResult` | the same without an answer: IDLE without a result |
| `"deleteFails"` | `HandlersAgree`, `CommandRepairs`, `ServerSeesList` | the instance is removed from the list before the client refuses to delete the file (`objects.c:1326-1362`) |

The run allows `"torn"`, a power loss between two writes of a handler. The code does not keep object 33406 and its
workspace in agreement then (`Agreed` as an invariant is violated), nor does a file transfer always end:

| part of `Agreed` | what happens |
|---|---|
| `BusyWithUrl` | the power is lost after `lwm2mcore_AbortDownload` or the check of the room erased the URL and before IDLE is stored (`lwm2mcorePackageDownloader.c:3293, 3320`; `fileTransfer.c:301, 302`), or after PROCESSING is stored and before the URL (`update.c:109, 119`): 33406 stays busy and no start resumes anything, until the next command |
| same | the power is lost between SUCCESS and the event that erases the URL (2778, 1062): idle with a URL; the next registration resumes the whole file, which fails, so that the result becomes FAILURE although the client may have the file |
| none, the result | the power is lost between IDLE and SUCCESS (2777, 2778), or between IDLE and FAILURE of an abort (3320, 3322): idle without a result, in the first case until the URL is resumed. The server can also read IDLE with INITIAL between the writes of the thread, without a power loss |
| `RoomForTransfer` | the power is lost between the first write of a command and the check after its response (`fileTransfer.c:292`), which is only in memory: the transfer is resumed with a full list. If its file is kept there is one file too many, and the check, which compares with `==` (298), lets every later transfer through |

Also, a firmware URL during a file transfer, or the reverse, stores the type first (`handlers.c:2348`): the
abort acts on the new type, and object 5 stays DOWNLOADING, or 33406 busy, without a URL; a firmware URL
equal to that of a transfer in progress changes its type and goes on.

`Session`:

- `"clockBack"` in `Faults` violates `RegisteredIsAnnounced`: when an alert is followed by a silent
  handshake the session is only updated, and the condition at `lwm2mcoreSession.c:816-823` announces nothing;
- a push that expires or is refused while the deregistration is due restarts the session: the
  disconnection that was asked for is lost;
- without `LWM2M_DEREGISTER`, and while an update is ongoing, `lwm2mcore_DisconnectWithDeregister` leaves the
  timers of a finished session armed (1671-1678, 1701-1704); so does line 551 after a deregistration that
  got no answer;
- the connection that is closed when a handshake is given up is looked for with the wrong arguments
  (`dtlsConnection.c:1282`), so that a READY session that cannot be handshaken again loses its credentials, which
  the comment at `lwm2mcoreSession.c:491-494` says it keeps;
- `PreviousState` (96) is never assigned: a bootstrap that failed is not restarted.

`Configuration`, by the member of `Deviations`: `"aclTorn"` and `"anyInstance"` violate `ListedIsConfigured`
(instances are listed as 0 to n-1 whatever their identifiers, and the first one created in an empty list is 0);
`"secondAccount"` violates `StoredAgrees` (deleting the credentials counts both accounts of the bootstrap server
and keeps one); `"factoryLifetime"` violates `LifetimeIsStored` (an entry without a lifetime is added). A power
loss while a growing configuration is stored costs the configuration: the client starts with the default one and
bootstraps. A lifetime set before the first start after an upgrade destroys the configuration of the previous
version, because the adaptation fills `BsConfigList` and not the configuration it was asked for.

`Objects`: a list as long as the table allows loses its last element; powerCurrents past their number, and a
battery level without a battery, are read as -1; the server key is read as the whole buffer; an eDRX value from 128
on takes two octets, a time from 2^63 on has no length; clock values are signed and formatted as unsigned;
`/5/0/8` answers HTTPS only, where the comment at `handlers.c:2633` has two protocols. A negative integer as
text or integer, and an empty text, reach the platform as -1; a base64 text with a single padding character decodes to
nothing and is accepted; a write of several values is answered by the last one; a write that fails half-way leaves
what was written.

## 6. Not modelled, and what is left

- Failing reads and writes of the workspace and failing allocations: two handlers of the downloader then
  loop without an exit (hazard at line 2787), which needs no model.
- Two download threads at once: they share the parser without a lock, and every outcome is possible.
- Packages whose sections come in another order than the tool writes them: a `DwlParser` module would take the
  grammar as an automaton, for small packages, against a definition of a valid one.
- Software packages (object 9) in the downloader: the platform keeps their state; `FwUpdate` has their effect
  on object 5.
- Block transfers and the requests to the application's CoAP handler, notifications and discovery: wakaama, which is not in
  the repository, keeps their state.
- Security (a conversion), logging, the example platform beyond what is named above, and the tests.

Theorems worth adding: none on the safety of the present modules; those of a `DwlParser` module would be on the grammar.
