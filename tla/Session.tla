------------------------------ MODULE Session ------------------------------
(***************************************************************************)
(* The session manager (sessionManager/lwm2mcoreSession.c) with its DTLS   *)
(* connections (sessionManager/dtlsConnection.c) and the CoAP              *)
(* acknowledgements that restart a session                                 *)
(* (objectManager/lwm2mcoreCoapHandlers.c).                                *)
(*                                                                         *)
(* A handler - the step timer, the inactivity timer, a received packet, a  *)
(* call of the application - runs to its end; the step handler is cut in   *)
(* two where it hands over to wakaama (pc).  wakaama and tinydtls are      *)
(* external: their part is what the calls made to them and the callbacks   *)
(* they make show, and the sequences of doc/lwm2mcore.dox 371-505 and      *)
(* 639-743.                                                                *)
(*                                                                         *)
(*   - one bootstrap server and one device management server, both with    *)
(*     DTLS (the only mode the library's callers configure);               *)
(*   - the contents of messages, addresses and keys are left out;          *)
(*   - a platform call that fails (no memory, no socket, no timer) is left *)
(*     out: the code logs it and goes on;                                  *)
(*   - when the session is finished the application frees the client       *)
(*     (examples/linux/main.c 184-190) and Connect makes a new one.        *)
(***************************************************************************)
EXTENDS Naturals

CONSTANTS
  Builds,      \* the values of the build flag LWM2M_DEREGISTER to explore
  Faults,      \* the kinds of trouble that may occur
  MaxFaults,   \* how often trouble may occur
  MaxConnects  \* how often the application may connect

FaultKinds == {"handshakeTimeout", "handshakeRefused", "lostAnswer",
               "rejected", "pushTimeout", "pushExpired", "pushRejected",
               "natTimeout", "clockBack", "updateOngoing"}

ASSUME SessionAssumption ==
  /\ Builds \subseteq BOOLEAN /\ Builds # {}
  /\ Faults \subseteq FaultKinds
  /\ MaxFaults \in Nat /\ MaxConnects \in Nat

Servers == {"BOOTSTRAP", "DM"}
Timers  == {"STEP", "INACTIVITY"}
States  == {"INITIAL", "BOOTSTRAPPING", "REGISTERING", "READY"}
\* the exchange wakaama has to start ("...Due"), waits an answer for, or, for
\* "finished", the bootstrap that the server has declared finished
Requests == {"none", "bootstrap", "finished", "register", "update",
             "deregister", "updateDue", "deregisterDue"}
Events  == {"INITIALIZED", "AUTHENTICATION_STARTED", "AUTHENTICATION_FAILED",
            "SESSION_TYPE_START", "SESSION_INACTIVE", "SESSION_FAILED",
            "REG_UPDATE_DONE", "SESSION_FINISHED"}

VARIABLES
  deregister,        \* LWM2M_DEREGISTER, fixed at build time
  open,              \* the UDP socket is open (SocketConfig)
  timers,            \* the timers that are armed
  state,             \* lwm2mHPtr->state
  request,           \* the exchange under way with a server
  conns,             \* connListPtr, the servers that have a connection
  app,               \* what DtlsContextPtr->app is: "none" (no context), "list"
                     \* (connListPtr) or "lost" (neither it nor a part of it)
  peer,              \* tinydtls: the state of the channel to each server
  dmCreds,           \* the configuration holds the device management server
  regId,             \* ... and a registration ID for it
  bootstrapSession,  \* BootstrapSession
  status,            \* the static status of smanager_SendSessionEvent
  told,              \* the session the application last heard of
  kept,              \* pushes of an earlier registration wait for an answer
  closing,           \* the application asked for the end of the session
  pc,                \* where the step handler is
  faults, connects   \* bounds

link == <<conns, app, peer>>
creds == <<dmCreds, regId>>
heard == <<bootstrapSession, status, told>>
wish == <<kept, closing>>
bounds == <<faults, connects>>
vars == <<deregister, open, timers, state, request, link, creds, heard, wish, pc,
          bounds>>

Idle == pc = "idle"

\* A session that is finished has no client any more, even where its socket and
\* its timers were left: what a handler does then is undefined and not modelled.
Live == open /\ told # "FINISHED"

\* Trouble of a kind the instance allows.
Fault(kind) ==
  /\ kind \in Faults /\ faults < MaxFaults
  /\ faults' = faults + 1 /\ UNCHANGED connects

Init ==
  /\ deregister \in Builds
  /\ open = FALSE /\ timers = {} /\ state = "INITIAL" /\ request = "none"
  /\ conns = {} /\ app = "none" /\ peer = [s \in Servers |-> "none"]
  /\ dmCreds \in BOOLEAN /\ regId \in BOOLEAN /\ (regId => dmCreds)
  /\ bootstrapSession = FALSE
  /\ status = [event |-> "INITIALIZED", type |-> "BOOTSTRAP"]
  /\ told = "none" /\ kept = FALSE /\ closing = FALSE /\ pc = "idle"
  /\ faults = 0 /\ connects = 0

----------------------------------------------------------------------------
(* What the library does to its connections.                               *)

Connected(s) == s \in conns

\* lwm2m_connect_server: a new connection is put in the list, and the DTLS context
\* is created with that list or given it.
ConnectServer(s) ==
  IF Connected(s) THEN UNCHANGED <<conns, app>>
  ELSE conns' = conns \cup {s} /\ app' = "list"

\* Mutant: the context keeps the list it had.
CloseServer_KeepsList(s) ==
  /\ conns' = conns \ {s}
  /\ peer' = [peer EXCEPT ![s] = "none"]
  /\ app' = IF app = "none" \/ ~Connected(s) THEN app ELSE "lost"

\* lwm2m_close_connection with dtls_CloseAndFreePeer and dtls_UpdateDtlsList.
CloseServer(s) ==
  /\ conns' = conns \ {s}
  /\ peer' = [peer EXCEPT ![s] = "none"]
  /\ app' = IF app = "none" THEN "none" ELSE "list"

\* dtls_FreeConnection.
FreeConnections ==
  /\ conns' = {} /\ app' = "none"
  /\ peer' = [s \in Servers |-> "none"]

(* What the application is told: smanager_SendSessionEvent and the status   *)
(* callback.                                                                *)

Kind == IF bootstrapSession THEN "BOOTSTRAP" ELSE "DM"

\* dtlsEventCb, DTLS_EVENT_CONNECT and DTLS_EVENT_RENEGOTIATE: tinydtls starts a
\* handshake and says so at once; dtls_Rehandshake sets IsRehandshake around its
\* own so that this one is not announced.
HandshakeStarts(s) ==
  /\ peer' = [peer EXCEPT ![s] = "handshake"]
  /\ status' = [event |-> "AUTHENTICATION_STARTED",
                type |-> IF bootstrapSession' THEN "BOOTSTRAP" ELSE "DM"]

\* dtls_Rehandshake: the channel is dropped and opened again; it cannot be
\* when the context no longer finds the connection to send on (SendToPeer).
Rehandshake(s) ==
  /\ peer' = [peer EXCEPT ![s] = IF app = "lost" THEN "none" ELSE "handshake"]
  /\ UNCHANGED status

\* lwm2m_buffer_send with ConnectionSend on a connection of the list: the first
\* message opens the channel; after the NAT timeout the channel is resumed (or,
\* when it cannot be, opened again); a clock that went back opens it again.
Send(s) ==
  \/ /\ peer[s] = "none" /\ app' # "lost"
     /\ HandshakeStarts(s) /\ UNCHANGED bounds
  \/ /\ peer[s] # "none" \/ app' = "lost"
     /\ UNCHANGED <<peer, status, bounds>>
  \/ /\ Connected(s) /\ peer[s] = "connected" /\ app' # "lost"
     /\ Fault("natTimeout")
     /\ HandshakeStarts(s) \/ Rehandshake(s)
  \/ /\ Connected(s) /\ Fault("clockBack")
     /\ Rehandshake(s)

\* ManageRegistration: the session is announced, a suspended download resumed
\* and the inactivity timer armed.
ManageRegistration(event) ==
  /\ status' = [event |-> event, type |-> "DM"]
  /\ told' = "DM"
  /\ timers' = timers \cup {"STEP", "INACTIVITY"}

\* omanager_DeleteDmCredentials.
DeleteDmCredentials == dmCreds' = FALSE /\ regId' = FALSE

\* ForceInitialConnection for the registered server; forget is
\* areCredentialsToBeDeleted, list what the DTLS context reads otherwise.  The
\* bootstrap server's connection is not one of serverList and stays.
ForceInitialConnection(forget, list) ==
  /\ dmCreds' = (dmCreds /\ ~forget) /\ regId' = FALSE
  /\ IF Connected("DM") THEN CloseServer("DM")
     ELSE app' = list /\ UNCHANGED <<conns, peer>>

\* The end of the session: lwm2m_followClosure, which closes wakaama's sessions
\* and reports EVENT_SESSION / DONE_SUCCESS.  Built with LWM2M_DEREGISTER that
\* event also closes the socket and stops the timers.
FollowClosure ==
  /\ bootstrapSession' = FALSE
  /\ status' = [status EXCEPT !.event = "SESSION_FINISHED"]
  /\ told' = "FINISHED"
  /\ kept' = FALSE /\ closing' = FALSE
  /\ request' = "none" /\ state' = "INITIAL"
  /\ conns' = {} /\ peer' = [s \in Servers |-> "none"]
  /\ UNCHANGED <<deregister, creds>>
  /\ IF deregister
     THEN open' = FALSE /\ timers' = {} /\ app' = "none"
     ELSE UNCHANGED <<open, timers>> /\ app' = IF app = "none" THEN "none" ELSE "list"

\* The same with CloseConnection, the end of lwm2mcore_Disconnect in a build
\* without LWM2M_DEREGISTER.
CloseSession ==
  /\ bootstrapSession' = FALSE
  /\ status' = [status EXCEPT !.event = "SESSION_FINISHED"]
  /\ told' = "FINISHED"
  /\ kept' = FALSE /\ closing' = FALSE
  /\ request' = "none" /\ state' = "INITIAL"
  /\ FreeConnections
  /\ open' = FALSE /\ timers' = {}
  /\ UNCHANGED <<deregister, creds>>

----------------------------------------------------------------------------
(* The step timer: Lwm2mClientStepHandler.                                  *)

\* The timer fires.
StepTimer ==
  /\ Idle /\ Live /\ "STEP" \in timers
  /\ timers' = timers \ {"STEP"}
  /\ pc' = IF conns = {} THEN "step" ELSE "retransmit"
  /\ UNCHANGED <<deregister, open, state, request, link, creds, heard, wish, bounds>>

Pending == {s \in Servers : Connected(s) /\ peer[s] = "handshake"}

\* dtls_HandshakeRetransmission sends again what a handshake waits for: the
\* handler only arms its timer.
RetransmitHandshake ==
  /\ pc = "retransmit" /\ Pending # {}
  /\ timers' = timers \cup {"STEP"}
  /\ pc' = "idle"
  /\ UNCHANGED <<deregister, open, state, request, link, creds, heard, wish, bounds>>

NothingToRetransmit ==
  /\ pc = "retransmit" /\ Pending = {}
  /\ pc' = "step"
  /\ UNCHANGED <<deregister, open, timers, state, request, link, creds, heard, wish,
                 bounds>>

\* The last retransmission was in vain.  dtls_HandshakeRetransmission closes the
\* connection with the DTLS context and the wakaama context in the place of the
\* connection and of the client data: no connection is found, and the context's
\* list becomes whatever stands at that place, which is not connListPtr.
GivesUp ==
  /\ pc = "retransmit" /\ Pending # {}
  /\ Fault("handshakeTimeout")

\* ... while registering: the credentials are taken for wrong and a bootstrap
\* follows.
GivesUpRegistering ==
  /\ GivesUp /\ state = "REGISTERING"
  /\ status' = [event |-> "AUTHENTICATION_FAILED", type |-> Kind]
  /\ state' = "INITIAL"
  /\ ForceInitialConnection(TRUE, "lost")
  /\ request' = "none" /\ kept' = FALSE
  /\ pc' = "step"
  /\ UNCHANGED <<deregister, open, timers, bootstrapSession, told, closing>>

\* ... in a registered session: a full handshake is tried on the first
\* connection; it has nothing to send on, which ForceInitialConnection answers
\* with a bootstrap.
GivesUpReady ==
  /\ GivesUp /\ state = "READY"
  /\ state' = "INITIAL"
  /\ ForceInitialConnection(TRUE, "lost")
  /\ request' = "none" /\ kept' = FALSE
  /\ pc' = "step"
  /\ UNCHANGED <<deregister, open, timers, heard, closing>>

\* ... in a bootstrap: the application is told, nothing else changes.
GivesUpBootstrapping ==
  /\ GivesUp /\ state = "BOOTSTRAPPING"
  /\ status' = [event |-> "AUTHENTICATION_FAILED", type |-> Kind]
  /\ app' = "lost"
  /\ peer' = [s \in Servers |-> IF s \in Pending THEN "none" ELSE peer[s]]
  /\ pc' = "step"
  /\ UNCHANGED <<deregister, open, timers, state, request, conns, creds,
                 bootstrapSession, told, wish>>

\* ... otherwise: the session has failed and is disconnected, the timer not
\* armed again.
GivesUpOtherwise ==
  /\ GivesUp /\ state = "INITIAL"
  /\ pc' = "idle"
  /\ IF deregister THEN FollowClosure ELSE CloseSession

(* The second part: lwm2m_step.  Done is the end of the handler, which arms  *)
(* the timer whatever lwm2m_step did.                                        *)

Stepping == pc = "step"

\* Mutant: the timer is only armed by what wakaama asks for.
Done_NotArmed ==
  /\ pc' = "idle" /\ timers' = IF request' = "none" THEN timers ELSE timers \cup {"STEP"}
  /\ UNCHANGED <<deregister, open, wish>>

Done ==
  /\ pc' = "idle" /\ timers' = timers \cup {"STEP"}
  /\ UNCHANGED <<deregister, open, wish>>

\* With a device management server in the configuration wakaama registers, or
\* updates the registration whose ID is kept.
StepRegister ==
  /\ Stepping /\ state = "INITIAL" /\ dmCreds
  /\ state' = "REGISTERING"
  /\ request' = IF regId THEN "update" ELSE "register"
  /\ ConnectServer("DM")
  /\ UNCHANGED <<bootstrapSession, told, creds>>
  /\ Send("DM")
  /\ Done

\* Without one it bootstraps: EVENT_TYPE_BOOTSTRAP / STARTED.
StepBootstrap ==
  /\ Stepping /\ state = "INITIAL" /\ ~dmCreds
  /\ bootstrapSession' = TRUE
  /\ state' = "BOOTSTRAPPING" /\ request' = "bootstrap"
  /\ ConnectServer("BOOTSTRAP")
  /\ UNCHANGED <<told, creds>>
  /\ Send("BOOTSTRAP")
  /\ Done

\* Mutant: the session stays a bootstrap session.
StepBootstrapDone_StillBootstrap ==
  /\ Stepping /\ state = "BOOTSTRAPPING" /\ request = "finished"
  /\ dmCreds' = TRUE /\ regId' = FALSE
  /\ state' = "INITIAL" /\ request' = "none"
  /\ CloseServer("BOOTSTRAP")
  /\ UNCHANGED <<deregister, open, timers, bootstrapSession, status, told, wish, pc,
                 bounds>>

\* Mutant: the credentials are not stored.
StepBootstrapDone_NotStored ==
  /\ Stepping /\ state = "BOOTSTRAPPING" /\ request = "finished"
  /\ bootstrapSession' = FALSE
  /\ state' = "INITIAL" /\ request' = "none"
  /\ CloseServer("BOOTSTRAP")
  /\ UNCHANGED <<deregister, open, timers, creds, status, told, wish, pc, bounds>>

\* EVENT_TYPE_BOOTSTRAP / DONE_SUCCESS: the credentials are stored and the
\* registration begins in the same call.
StepBootstrapDone ==
  /\ Stepping /\ state = "BOOTSTRAPPING" /\ request = "finished"
  /\ bootstrapSession' = FALSE
  /\ dmCreds' = TRUE /\ regId' = FALSE
  /\ state' = "INITIAL" /\ request' = "none"
  /\ CloseServer("BOOTSTRAP")
  /\ UNCHANGED <<deregister, open, timers, status, told, wish, pc, bounds>>

\* An exchange that gets no answer in time; without a connection that the
\* context finds there is none to get.
Unanswered(s) ==
  \/ app = "lost" /\ UNCHANGED bounds
  \/ peer[s] # "handshake" /\ Fault("lostAnswer")

\* EVENT_TYPE_BOOTSTRAP / DONE_FAIL.  lwm2m_step fails from now on; the handler
\* would restart the bootstrap if PreviousState, which nothing assigns, were
\* STATE_BOOTSTRAPPING.
StepBootstrapFails ==
  /\ Stepping /\ state = "BOOTSTRAPPING" /\ request = "bootstrap"
  /\ Unanswered("BOOTSTRAP")
  /\ status' = [status EXCEPT !.event = "SESSION_FAILED"]
  /\ told' = "FAILED"
  /\ request' = "none"
  /\ CloseServer("BOOTSTRAP")
  /\ UNCHANGED <<state, creds, bootstrapSession>>
  /\ Done

\* EVENT_TYPE_REGISTRATION / DONE_FAIL: the credentials are deleted so that a
\* bootstrap follows.
RegistrationFails ==
  /\ status' = [status EXCEPT !.event = "SESSION_FAILED"]
  /\ told' = "FAILED"
  /\ DeleteDmCredentials
  /\ state' = "INITIAL" /\ request' = "none"
  /\ UNCHANGED <<link, bootstrapSession>>

StepRegistrationFails ==
  /\ Stepping /\ state = "REGISTERING" /\ request = "register"
  /\ Unanswered("DM")
  /\ RegistrationFails
  /\ Done

\* EVENT_TYPE_REG_UPDATE / DONE_FAIL says nothing to the application.  An update
\* that opened the session is followed by a new registration (wakaama reports
\* LWM2MCORE_ACK_EXPIRED), any other by the next update.
StepUpdateFails ==
  /\ Stepping /\ request = "update"
  /\ Unanswered("DM")
  /\ request' = "none"
  /\ IF state = "READY" THEN UNCHANGED <<state, creds, link>>
     ELSE state' = "INITIAL" /\ ForceInitialConnection(FALSE, app)
  /\ UNCHANGED heard
  /\ Done

\* A registration update that is due is sent.
StepUpdate ==
  /\ Stepping /\ state = "READY" /\ request = "updateDue"
  /\ request' = "update"
  /\ ConnectServer("DM")
  /\ UNCHANGED <<state, creds, bootstrapSession, told>>
  /\ Send("DM")
  /\ Done

\* So is the deregistration (only built with LWM2M_DEREGISTER).
StepDeregister ==
  /\ Stepping /\ state = "READY" /\ request = "deregisterDue"
  /\ request' = "deregister"
  /\ ConnectServer("DM")
  /\ UNCHANGED <<state, creds, bootstrapSession, told>>
  /\ Send("DM")
  /\ Done

\* The deregistration got no answer: wakaama follows the closure inside
\* lwm2m_step, and the handler arms its timer after it.
StepDeregisterFails ==
  /\ Stepping /\ state = "READY" /\ request = "deregister"
  /\ Unanswered("DM")
  /\ pc' = "idle" /\ timers' = {"STEP"}
  /\ bootstrapSession' = FALSE
  /\ status' = [status EXCEPT !.event = "SESSION_FINISHED"]
  /\ told' = "FINISHED" /\ kept' = FALSE /\ closing' = FALSE
  /\ state' = "INITIAL" /\ request' = "none"
  /\ FreeConnections
  /\ open' = FALSE
  /\ UNCHANGED <<deregister, creds>>

\* Otherwise: an exchange whose channel was lost is sent again, and with nothing
\* to do the lifetime may have run far enough for an update.
ServerOf == IF state = "BOOTSTRAPPING" THEN "BOOTSTRAP" ELSE "DM"
Awaited == {"bootstrap", "register", "update", "deregister"}

StepAgain ==
  /\ Stepping /\ state # "INITIAL" /\ request \in Awaited
  /\ Connected(ServerOf) /\ app # "lost"
  /\ UNCHANGED <<state, request, conns, app, creds, bootstrapSession, told>>
  /\ Send(ServerOf)
  /\ Done

StepNothing ==
  /\ Stepping /\ request = "none" /\ state \in {"READY", "BOOTSTRAPPING"}
  /\ request' \in IF state = "READY" THEN {"none", "update"} ELSE {"none"}
  /\ UNCHANGED <<state, link, creds, heard, bounds>>
  /\ Done

Step ==
  \/ StepRegister \/ StepBootstrap \/ StepBootstrapDone \/ StepBootstrapFails
  \/ StepRegistrationFails \/ StepUpdateFails \/ StepUpdate \/ StepDeregister
  \/ StepDeregisterFails \/ StepAgain \/ StepNothing

----------------------------------------------------------------------------
(* Packets: lwm2mcore_UdpReceiveCb finds the connection, tinydtls calls the  *)
(* library back and, when the inactivity timer runs, it is set again.       *)

\* Only what finds its connection in the list is handled; data also has to find
\* it in the context's list (ReadFromPeer).
Receives(s, channel) ==
  /\ Idle /\ Live /\ Connected(s) /\ app = "list" /\ peer[s] = channel

\* DTLS_EVENT_CONNECTED: a bootstrap session is announced, a device management
\* session when its registration is confirmed.
HandshakeDone(s) ==
  /\ Receives(s, "handshake")
  /\ peer' = [peer EXCEPT ![s] = "connected"]
  /\ IF bootstrapSession
     THEN /\ status' = [event |-> "SESSION_TYPE_START", type |-> "BOOTSTRAP"]
          /\ told' = "BOOTSTRAP" /\ UNCHANGED timers
     ELSE timers' = timers \cup {"STEP"} /\ UNCHANGED <<status, told>>
  /\ UNCHANGED <<deregister, open, state, request, conns, app, creds, bootstrapSession,
                 wish, pc, bounds>>

\* A fatal alert.
HandshakeRefused(s) ==
  /\ Receives(s, "handshake") /\ Fault("handshakeRefused")
  /\ peer' = [peer EXCEPT ![s] = "none"]
  /\ status' = [event |-> "AUTHENTICATION_FAILED", type |-> Kind]
  /\ UNCHANGED <<deregister, open, timers, state, request, conns, app, creds,
                 bootstrapSession, told, wish, pc>>

\* The bootstrap server has written its configuration and said so:
\* EVENT_TYPE_BOOTSTRAP / FINISHING.
BootstrapFinished ==
  /\ Receives("BOOTSTRAP", "connected") /\ request = "bootstrap"
  /\ request' = "finished"
  /\ timers' = timers \cup {"STEP"}
  /\ UNCHANGED <<deregister, open, state, link, creds, heard, wish, pc, bounds>>

\* EVENT_TYPE_REGISTRATION / DONE_SUCCESS; wakaama keeps the registration ID.
Registered ==
  /\ Receives("DM", "connected") /\ request = "register"
  /\ state' = "READY" /\ request' = "none" /\ regId' = TRUE
  /\ ManageRegistration("SESSION_TYPE_START")
  /\ UNCHANGED <<deregister, open, link, dmCreds, bootstrapSession, wish, pc, bounds>>

RegistrationRefused ==
  /\ Receives("DM", "connected") /\ request = "register"
  /\ Fault("rejected")
  /\ RegistrationFails
  /\ UNCHANGED <<deregister, open, timers, wish, pc>>

\* Mutant: an update never announces the session.
Updated_Silent ==
  /\ Receives("DM", "connected") /\ request = "update"
  /\ state' = "READY" /\ request' = "none"
  /\ status' = [status EXCEPT !.event = "REG_UPDATE_DONE"]
  /\ UNCHANGED <<told, timers>>
  /\ UNCHANGED <<deregister, open, link, creds, bootstrapSession, wish, pc, bounds>>

\* EVENT_TYPE_REG_UPDATE / DONE_SUCCESS: when the last event was the start of an
\* authentication the session is announced first.
Updated ==
  /\ Receives("DM", "connected") /\ request = "update"
  /\ state' = "READY" /\ request' = "none"
  /\ IF status.event = "AUTHENTICATION_STARTED"
     THEN ManageRegistration("REG_UPDATE_DONE")
     ELSE /\ status' = [status EXCEPT !.event = "REG_UPDATE_DONE"]
          /\ UNCHANGED <<told, timers>>
  /\ UNCHANGED <<deregister, open, link, creds, bootstrapSession, wish, pc, bounds>>

\* The deregistration is acknowledged; the timers stay stopped, since only a
\* running inactivity timer is set again.
Deregistered ==
  /\ Receives("DM", "connected") /\ request = "deregister"
  /\ FollowClosure
  /\ UNCHANGED <<pc, bounds>>

(* lwm2mcore_AckCallback: what became of a push that was made in a registered *)
(* session, maybe one before the registration under way; an update that opens *)
(* the session is the first exchange, and has no push before it.             *)

Acknowledged(result) ==
  /\ Idle /\ Live
  /\ state = "READY" \/ (kept /\ request \in {"bootstrap", "register"})
  /\ Fault(result)
  /\ UNCHANGED <<deregister, open, closing, pc>>

\* LWM2MCORE_ACK_TIMEOUT: dtls_ForceDtlsHandshake resumes every channel, or
\* opens it again.
PushTimeout ==
  /\ Acknowledged("pushTimeout") /\ conns # {} /\ app = "list"
  /\ UNCHANGED bootstrapSession
  /\ peer' = [s \in Servers |-> IF Connected(s) THEN "handshake" ELSE peer[s]]
  /\ \/ status' = [event |-> "AUTHENTICATION_STARTED", type |-> Kind]
     \/ UNCHANGED status
  /\ UNCHANGED <<timers, state, request, kept, conns, app, creds, told>>

\* LWM2MCORE_ACK_EXPIRED: smanager_Registration, a new registration.
PushExpired ==
  /\ Acknowledged("pushExpired")
  /\ state' = "INITIAL" /\ ForceInitialConnection(FALSE, app)
  /\ timers' = timers \cup {"STEP"} /\ kept' = TRUE
  /\ UNCHANGED <<request, heard>>

\* LWM2MCORE_ACK_REJECTED: smanager_ForceBootstrap; the transactions are kept.
PushRejected ==
  /\ Acknowledged("pushRejected")
  /\ state' = "INITIAL" /\ ForceInitialConnection(TRUE, app)
  /\ timers' = timers \cup {"STEP"} /\ kept' = TRUE
  /\ UNCHANGED <<request, heard>>

Packets ==
  \/ \E s \in Servers : HandshakeDone(s) \/ HandshakeRefused(s)
  \/ BootstrapFinished \/ Registered \/ RegistrationRefused \/ Updated \/ Deregistered
  \/ PushTimeout \/ PushExpired \/ PushRejected

----------------------------------------------------------------------------
(* The application and the inactivity timer.                                *)

\* lwm2mcore_Init and lwm2mcore_Connect.
Connect ==
  /\ Idle /\ ~open /\ connects < MaxConnects
  /\ connects' = connects + 1 /\ UNCHANGED faults
  /\ open' = TRUE /\ timers' = timers \cup {"STEP"}
  /\ state' = "INITIAL" /\ request' = "none" /\ told' = "none"
  /\ UNCHANGED <<deregister, link, creds, bootstrapSession, status, wish, pc>>

\* lwm2mcore_Update and omanager_UpdateRequest: an update is scheduled when the
\* session is registered.
Update ==
  /\ Idle /\ Live /\ state = "READY" /\ request = "none"
  /\ request' = "updateDue" /\ timers' = timers \cup {"STEP"}
  /\ UNCHANGED <<deregister, open, state, link, creds, heard, wish, pc, bounds>>

\* lwm2mcore_Disconnect; lwm2mcore_DisconnectWithDeregister comes to it while a
\* package download can be resumed.
Disconnect ==
  /\ Idle /\ Live
  /\ IF deregister THEN FollowClosure ELSE CloseSession
  /\ UNCHANGED <<pc, bounds>>

\* lwm2mcore_DisconnectWithDeregister: during a firmware update, and when there
\* is nothing to deregister, the closure follows at once and only that; else the
\* deregistration is scheduled, or, without LWM2M_DEREGISTER, all is closed.
DisconnectWithDeregister ==
  /\ Idle /\ Live
  /\ UNCHANGED pc
  /\ \/ Fault("updateOngoing") /\ FollowClosure
     \/ state # "READY" /\ FollowClosure /\ UNCHANGED bounds
     \/ /\ state = "READY" /\ UNCHANGED bounds
        /\ IF deregister
           THEN /\ request' = "deregisterDue" /\ closing' = TRUE
                /\ timers' = timers \cup {"STEP"}
                /\ UNCHANGED <<deregister, open, state, link, creds, heard, kept>>
           ELSE CloseSession

\* Lwm2mClientInactivityHandler arms its timer again and tells the application.
InactivityTimer ==
  /\ Idle /\ Live /\ "INACTIVITY" \in timers
  /\ status' = [status EXCEPT !.event = "SESSION_INACTIVE"]
  /\ UNCHANGED <<deregister, open, timers, state, request, link, creds,
                 bootstrapSession, told, wish, pc, bounds>>

StepHandler ==
  \/ StepTimer \/ RetransmitHandshake \/ NothingToRetransmit
  \/ GivesUpRegistering \/ GivesUpReady \/ GivesUpBootstrapping \/ GivesUpOtherwise
  \/ Step

Next ==
  \/ StepHandler
  \/ Packets
  \/ Connect \/ Update \/ Disconnect \/ DisconnectWithDeregister
  \/ InactivityTimer

Spec == Init /\ [][Next]_vars

\* Fairness: an armed timer fires and its handler runs on; between two firings,
\* at least a second apart, there is room for the packet a server sends (strong,
\* since the handler takes the processor again and again).
Answers ==
  \/ \E s \in Servers : HandshakeDone(s)
  \/ BootstrapFinished \/ Registered \/ Updated \/ Deregistered
FairSpec == Spec /\ WF_vars(StepHandler) /\ SF_vars(Answers)

----------------------------------------------------------------------------
(* Properties.                                                              *)

\* While the socket is open the step timer is armed whenever no handler runs:
\* whatever a handler, a packet or a call did on its way, the client goes on
\* (lwm2mcoreSession.c 547-555, 2405-2418).
StepsWhileOpen == Idle /\ Live => "STEP" \in timers

\* A registered session was announced to the application since it connected,
\* also when the registration was only updated: the condition on the last event
\* (lwm2mcoreSession.c 816-823) lets no session begin in silence.
RegisteredIsAnnounced == Idle /\ Live /\ state = "READY" => told = "DM"

\* The DTLS context reads and sends with the list of the connections; only a
\* bootstrap handshake that was given up leaves it with another
\* (dtlsConnection.c 1282).
ContextHasList == Idle /\ app = "lost" => state = "BOOTSTRAPPING"

\* An authentication is announced with the type of the session that is under way
\* (lwm2mcoreSession.c 873-886): BootstrapSession, which only the events set and
\* clear, follows wakaama's state over every failure and restart.
TypeIsTrue ==
  [][/\ status' # status /\ status'.event = "AUTHENTICATION_STARTED"
     /\ state' # "INITIAL"
     => status'.type = ServerOf']_vars

\* With servers that answer in the end an open session gets registered, ends,
\* or is reported as failed: no order of troubles leaves it silently stuck.
Settles == Live ~> (state = "READY" \/ ~Live \/ told = "FAILED")

=============================================================================
