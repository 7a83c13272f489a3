--------------------------- MODULE SessionProofs ---------------------------
(***************************************************************************)
(* The step timer, the list of the DTLS context, and what the application  *)
(* is told, for both builds, every set of troubles and any number of them; *)
(* that a registered session was announced, if the clock does not go back. *)
(***************************************************************************)
EXTENDS Session, TLAPS

\* The clock does not go back, so that no channel is opened again in silence
NoClockBack == "clockBack" \notin Faults

----------------------------------------------------------------------------
(* The step timer *)

LEMMA StepsInit == Init => StepsWhileOpen
  BY DEF Init, StepsWhileOpen, Live

LEMMA StepHandlerSteps == StepsWhileOpen /\ StepHandler => StepsWhileOpen'
<1> SUFFICES ASSUME StepsWhileOpen, StepHandler
             PROVE  StepsWhileOpen'
  OBVIOUS
<1> USE DEF StepsWhileOpen, Idle, Live
<1>1. CASE StepTimer
  BY <1>1 DEF StepTimer
<1>2. CASE RetransmitHandshake
  BY <1>2 DEF RetransmitHandshake
<1>3. CASE NothingToRetransmit
  BY <1>3 DEF NothingToRetransmit
<1>4. CASE GivesUpRegistering
  BY <1>4 DEF GivesUpRegistering
<1>5. CASE GivesUpReady
  BY <1>5 DEF GivesUpReady
<1>6. CASE GivesUpBootstrapping
  BY <1>6 DEF GivesUpBootstrapping
<1>7. CASE GivesUpOtherwise
  BY <1>7 DEF GivesUpOtherwise, FollowClosure, CloseSession
<1>8. CASE Step
  <2>1. CASE Done
    BY <2>1 DEF Done
  <2>2. CASE StepBootstrapDone
    BY <2>2 DEF StepBootstrapDone, Stepping
  <2>3. CASE StepDeregisterFails
    BY <2>3 DEF StepDeregisterFails
  <2> QED
    BY <1>8, <2>1, <2>2, <2>3 DEF Step, StepRegister, StepBootstrap, StepBootstrapFails,
       StepRegistrationFails, StepUpdateFails, StepUpdate, StepDeregister, StepAgain, StepNothing
<1> QED
  BY <1>1, <1>2, <1>3, <1>4, <1>5, <1>6, <1>7, <1>8 DEF StepHandler

LEMMA PacketsSteps == StepsWhileOpen /\ Packets => StepsWhileOpen'
<1> SUFFICES ASSUME StepsWhileOpen, Packets
             PROVE  StepsWhileOpen'
  OBVIOUS
<1> USE DEF StepsWhileOpen, Idle, Live
<1>1. ASSUME NEW s \in Servers, HandshakeDone(s)
      PROVE  StepsWhileOpen'
  BY <1>1 DEF HandshakeDone, Receives
<1>2. ASSUME NEW s \in Servers, HandshakeRefused(s)
      PROVE  StepsWhileOpen'
  BY <1>2 DEF HandshakeRefused, Receives
<1>3. CASE BootstrapFinished
  BY <1>3 DEF BootstrapFinished
<1>4. CASE Registered
  BY <1>4 DEF Registered, ManageRegistration
<1>5. CASE RegistrationRefused
  BY <1>5 DEF RegistrationRefused, Receives
<1>6. CASE Updated
  BY <1>6 DEF Updated, Receives, ManageRegistration
<1>7. CASE Deregistered
  BY <1>7 DEF Deregistered, FollowClosure
<1>8. CASE PushTimeout
  BY <1>8 DEF PushTimeout, Acknowledged
<1>9. CASE PushExpired \/ PushRejected
  BY <1>9 DEF PushExpired, PushRejected
<1> QED
  BY <1>1, <1>2, <1>3, <1>4, <1>5, <1>6, <1>7, <1>8, <1>9 DEF Packets

LEMMA ApplicationSteps ==
  StepsWhileOpen /\ (Connect \/ Update \/ Disconnect \/ DisconnectWithDeregister \/ InactivityTimer)
    => StepsWhileOpen'
<1> USE DEF StepsWhileOpen, Idle, Live
<1>1. Connect => StepsWhileOpen'
  BY DEF Connect
<1>2. Update => StepsWhileOpen'
  BY DEF Update
<1>3. Disconnect => StepsWhileOpen'
  BY DEF Disconnect, FollowClosure, CloseSession
<1>4. DisconnectWithDeregister => StepsWhileOpen'
  BY DEF DisconnectWithDeregister, FollowClosure, CloseSession
<1>5. StepsWhileOpen /\ InactivityTimer => StepsWhileOpen'
  BY DEF InactivityTimer
<1> QED
  BY <1>1, <1>2, <1>3, <1>4, <1>5

\* Whatever a handler, a packet or a call of the application does on its way, the
\* step timer of an open session is armed when it returns.
THEOREM StepsCorrect == Spec => []StepsWhileOpen
<1>1. StepsWhileOpen /\ UNCHANGED vars => StepsWhileOpen'
  BY DEF StepsWhileOpen, Idle, Live, vars, heard
<1>2. StepsWhileOpen /\ [Next]_vars => StepsWhileOpen'
  BY <1>1, StepHandlerSteps, PacketsSteps, ApplicationSteps DEF Next
<1> QED
  BY <1>2, StepsInit, PTL DEF Spec

----------------------------------------------------------------------------
(* The list of the DTLS context *)

\* A list that is lost when a handshake is given up is found again by the step
\* that follows, which closes the connection or starts a bootstrap; and a push
\* that could end that bootstrap first is forgotten.
ContextInv ==
  /\ app = "lost" \/ pc # "idle" => open
  /\ state = "BOOTSTRAPPING" => request \in {"bootstrap", "finished", "none"}
  /\ app = "lost" /\ pc = "step" =>
       \/ state = "INITIAL" /\ request = "none" /\ ~dmCreds /\ ~kept
       \/ state = "BOOTSTRAPPING"
  /\ app = "lost" /\ pc # "step" =>
       state = "BOOTSTRAPPING" /\ (request = "bootstrap" => ~kept)

LEMMA ContextInit == Init => ContextInv
  BY DEF Init, ContextInv

LEMMA StepHandlerContext == ContextInv /\ StepHandler => ContextInv'
<1> SUFFICES ASSUME ContextInv, StepHandler
             PROVE  ContextInv'
  OBVIOUS
<1> USE DEF ContextInv, Idle, Live, link, creds, wish, heard
<1>1. CASE StepTimer
  BY <1>1 DEF StepTimer
<1>2. CASE RetransmitHandshake
  BY <1>2 DEF RetransmitHandshake
<1>3. CASE NothingToRetransmit
  BY <1>3 DEF NothingToRetransmit
<1>4. CASE GivesUpRegistering
  BY <1>4 DEF GivesUpRegistering, GivesUp, ForceInitialConnection, CloseServer
<1>5. CASE GivesUpReady
  BY <1>5 DEF GivesUpReady, GivesUp, ForceInitialConnection, CloseServer
<1>6. CASE GivesUpBootstrapping
  BY <1>6 DEF GivesUpBootstrapping, GivesUp
<1>7. CASE GivesUpOtherwise
  BY <1>7 DEF GivesUpOtherwise, FollowClosure, CloseSession, FreeConnections
<1>8. CASE StepRegister
  BY <1>8 DEF StepRegister, Stepping, Done, ConnectServer
<1>9. CASE StepBootstrap
  BY <1>9 DEF StepBootstrap, Stepping, Done, ConnectServer
<1>10. CASE StepBootstrapDone
  BY <1>10 DEF StepBootstrapDone, Stepping, CloseServer
<1>11. CASE StepBootstrapFails
  BY <1>11 DEF StepBootstrapFails, Stepping, Done, CloseServer
<1>12. CASE StepRegistrationFails
  BY <1>12 DEF StepRegistrationFails, RegistrationFails, Stepping, Done
<1>13. CASE StepUpdateFails
  BY <1>13 DEF StepUpdateFails, Stepping, Done, ForceInitialConnection, CloseServer
<1>14. CASE StepUpdate
  BY <1>14 DEF StepUpdate, Stepping, Done, ConnectServer
<1>15. CASE StepDeregister
  BY <1>15 DEF StepDeregister, Stepping, Done, ConnectServer
<1>16. CASE StepDeregisterFails
  BY <1>16 DEF StepDeregisterFails, FreeConnections
<1>17. CASE StepAgain
  BY <1>17 DEF StepAgain, Stepping, Done
<1>18. CASE StepNothing
  BY <1>18 DEF StepNothing, Stepping, Done
<1> QED
  BY <1>1, <1>2, <1>3, <1>4, <1>5, <1>6, <1>7, <1>8, <1>9, <1>10, <1>11, <1>12, <1>13, <1>14,
     <1>15, <1>16, <1>17, <1>18 DEF StepHandler, Step

LEMMA PacketsContext == ContextInv /\ Packets => ContextInv'
<1> SUFFICES ASSUME ContextInv, Packets
             PROVE  ContextInv'
  OBVIOUS
<1> USE DEF ContextInv, Idle, Live, Receives, link, creds, wish, heard
<1>1. ASSUME NEW s \in Servers, HandshakeDone(s)
      PROVE  ContextInv'
  BY <1>1 DEF HandshakeDone
<1>2. ASSUME NEW s \in Servers, HandshakeRefused(s)
      PROVE  ContextInv'
  BY <1>2 DEF HandshakeRefused
<1>3. CASE BootstrapFinished
  BY <1>3 DEF BootstrapFinished
<1>4. CASE Registered
  BY <1>4 DEF Registered
<1>5. CASE RegistrationRefused
  BY <1>5 DEF RegistrationRefused, RegistrationFails
<1>6. CASE Updated
  BY <1>6 DEF Updated
<1>7. CASE Deregistered
  BY <1>7 DEF Deregistered, FollowClosure
<1>8. CASE PushTimeout
  BY <1>8 DEF PushTimeout, Acknowledged
<1>9. CASE PushExpired
  BY <1>9 DEF PushExpired, Acknowledged, ForceInitialConnection, CloseServer
<1>10. CASE PushRejected
  BY <1>10 DEF PushRejected, Acknowledged, ForceInitialConnection, CloseServer
<1> QED
  BY <1>1, <1>2, <1>3, <1>4, <1>5, <1>6, <1>7, <1>8, <1>9, <1>10 DEF Packets

LEMMA ApplicationContext ==
  ContextInv /\ (Connect \/ Update \/ Disconnect \/ DisconnectWithDeregister \/ InactivityTimer)
    => ContextInv'
<1> SUFFICES ASSUME ContextInv
             PROVE  (Connect \/ Update \/ Disconnect \/ DisconnectWithDeregister \/ InactivityTimer)
                      => ContextInv'
  OBVIOUS
<1> USE DEF ContextInv, Idle, Live, link, creds, wish, heard
<1>1. Connect => ContextInv'
  BY DEF Connect
<1>2. Update => ContextInv'
  BY DEF Update
<1>3. Disconnect => ContextInv'
  BY DEF Disconnect, FollowClosure, CloseSession, FreeConnections
<1>4. DisconnectWithDeregister => ContextInv'
  <2>1. FollowClosure /\ UNCHANGED pc /\ pc = "idle" => ContextInv'
    BY DEF FollowClosure
  <2>2. CloseSession /\ UNCHANGED pc /\ pc = "idle" => ContextInv'
    BY DEF CloseSession, FreeConnections
  <2>3. /\ pc = "idle" /\ state = "READY" /\ UNCHANGED <<pc, open, state, link, creds, kept>>
        => ContextInv'
    OBVIOUS
  <2> QED
    BY <2>1, <2>2, <2>3 DEF DisconnectWithDeregister
<1>5. InactivityTimer => ContextInv'
  BY DEF InactivityTimer
<1> QED
  BY <1>1, <1>2, <1>3, <1>4, <1>5

LEMMA ContextStep == ContextInv /\ [Next]_vars => ContextInv'
<1>1. ContextInv /\ UNCHANGED vars => ContextInv'
  BY DEF ContextInv, vars, link, creds, heard, wish
<1> QED
  BY <1>1, StepHandlerContext, PacketsContext, ApplicationContext DEF Next

\* The DTLS context reads and sends with the list of the connections whenever no
\* handler runs, except in a bootstrap whose handshake was given up.
THEOREM ContextCorrect == Spec => []ContextHasList
<1>1. ContextInv => ContextHasList
  BY DEF ContextInv, ContextHasList, Idle
<1> QED
  BY <1>1, ContextInit, ContextStep, PTL DEF Spec

----------------------------------------------------------------------------
(* Sessions and what is told of them *)

\* The channel to a server is what tinydtls has, the status is an event with a type
StateTypeOK ==
  /\ state \in States
  /\ peer \in [Servers -> {"none", "handshake", "connected"}]
  /\ status \in [event : Events, type : Servers]

\* BootstrapSession follows the state of wakaama, and a bootstrap has no device
\* management server.  A state that was left has no connection to get an answer on.
PhaseInv ==
  /\ state = "BOOTSTRAPPING" => bootstrapSession
  /\ bootstrapSession => ~dmCreds /\ state \in {"INITIAL", "BOOTSTRAPPING"}
  /\ state \in {"REGISTERING", "READY"} \/ regId => dmCreds
  /\ state = "INITIAL" /\ request \in {"register", "update"} => "DM" \notin conns

\* The device has connected with a registration ID of an earlier session and updates
\* it: the handshake, which is the last event, comes first
Reopening ==
  /\ told = "none" /\ "INACTIVITY" \notin timers /\ peer["BOOTSTRAP"] = "none"
  /\ \/ state = "INITIAL" /\ request = "none" /\ peer["DM"] = "none"
     \/ /\ state = "REGISTERING" /\ request = "update"
        /\ peer["DM"] = "none" \/ status.event = "AUTHENTICATION_STARTED"

\* A registration ID is that of a session that was announced, or of one to reopen
AnnounceInv ==
  /\ ~open => /\ peer["DM"] = "none" /\ peer["BOOTSTRAP"] = "none"
              /\ "INACTIVITY" \notin timers
  /\ Live /\ state = "READY" => told = "DM"
  /\ Live /\ regId => told = "DM" \/ Reopening
  /\ state = "REGISTERING" /\ request = "update" => regId

LEMMA StateTypeStep == StateTypeOK /\ Next => StateTypeOK'
<1> SUFFICES ASSUME StateTypeOK, Next
             PROVE  StateTypeOK'
  OBVIOUS
<1> USE DEF StateTypeOK, States, Servers, Events, Kind, Idle, Live, Connected, Fault, link, creds,
        heard, wish, bounds
<1>1. CASE StepTimer
  BY <1>1 DEF StepTimer
<1>2. CASE RetransmitHandshake
  BY <1>2 DEF RetransmitHandshake
<1>3. CASE NothingToRetransmit
  BY <1>3 DEF NothingToRetransmit
<1>4. CASE GivesUpRegistering
  BY <1>4 DEF GivesUpRegistering, GivesUp, ForceInitialConnection, CloseServer
<1>5. CASE GivesUpReady
  BY <1>5 DEF GivesUpReady, GivesUp, ForceInitialConnection, CloseServer
<1>6. CASE GivesUpBootstrapping
  BY <1>6 DEF GivesUpBootstrapping, GivesUp
<1>7. CASE GivesUpOtherwise
  BY <1>7 DEF GivesUpOtherwise, GivesUp, FollowClosure, CloseSession, FreeConnections
<1>8. CASE StepRegister
  BY <1>8 DEF StepRegister, Stepping, Done, ConnectServer, Send, HandshakeStarts, Rehandshake
<1>9. CASE StepBootstrap
  BY <1>9 DEF StepBootstrap, Stepping, Done, ConnectServer, Send, HandshakeStarts, Rehandshake
<1>10. CASE StepBootstrapDone
  BY <1>10 DEF StepBootstrapDone, Stepping, CloseServer
<1>11. CASE StepBootstrapFails
  BY <1>11 DEF StepBootstrapFails, Stepping, Done, CloseServer
<1>12. CASE StepRegistrationFails
  BY <1>12 DEF StepRegistrationFails, RegistrationFails, DeleteDmCredentials, Stepping, Done
<1>13. CASE StepUpdateFails
  BY <1>13 DEF StepUpdateFails, Stepping, Done, ForceInitialConnection, CloseServer
<1>14. CASE StepUpdate
  BY <1>14 DEF StepUpdate, Stepping, Done, ConnectServer, Send, HandshakeStarts, Rehandshake
<1>15. CASE StepDeregister
  BY <1>15 DEF StepDeregister, Stepping, Done, ConnectServer, Send, HandshakeStarts, Rehandshake
<1>16. CASE StepDeregisterFails
  BY <1>16 DEF StepDeregisterFails, Stepping, FreeConnections
<1>17. CASE StepAgain
  BY <1>17 DEF StepAgain, Stepping, Done, ServerOf, Awaited, Send, HandshakeStarts, Rehandshake
<1>18. CASE StepNothing
  BY <1>18 DEF StepNothing, Stepping, Done
<1>19. ASSUME NEW s \in Servers, HandshakeDone(s)
      PROVE  StateTypeOK'
  BY <1>19 DEF HandshakeDone, Receives
<1>20. ASSUME NEW s \in Servers, HandshakeRefused(s)
      PROVE  StateTypeOK'
  BY <1>20 DEF HandshakeRefused, Receives
<1>21. CASE BootstrapFinished
  BY <1>21 DEF BootstrapFinished, Receives
<1>22. CASE Registered
  BY <1>22 DEF Registered, Receives, ManageRegistration
<1>23. CASE RegistrationRefused
  BY <1>23 DEF RegistrationRefused, Receives, RegistrationFails, DeleteDmCredentials
<1>24. CASE Updated
  BY <1>24 DEF Updated, Receives, ManageRegistration
<1>25. CASE Deregistered
  BY <1>25 DEF Deregistered, Receives, FollowClosure
<1>26. CASE PushTimeout
  BY <1>26 DEF PushTimeout, Acknowledged
<1>27. CASE PushExpired
  BY <1>27 DEF PushExpired, Acknowledged, ForceInitialConnection, CloseServer
<1>28. CASE PushRejected
  BY <1>28 DEF PushRejected, Acknowledged, ForceInitialConnection, CloseServer
<1>29. CASE Connect
  BY <1>29 DEF Connect
<1>30. CASE Update
  BY <1>30 DEF Update
<1>31. CASE Disconnect
  BY <1>31 DEF Disconnect, FollowClosure, CloseSession, FreeConnections
<1>32. CASE DisconnectWithDeregister
  BY <1>32 DEF DisconnectWithDeregister, FollowClosure, CloseSession, FreeConnections
<1>33. CASE InactivityTimer
  BY <1>33 DEF InactivityTimer
<1> QED
  BY <1>1, <1>2, <1>3, <1>4, <1>5, <1>6, <1>7, <1>8, <1>9, <1>10, <1>11, <1>12, <1>13, <1>14,
     <1>15, <1>16, <1>17, <1>18, <1>19, <1>20, <1>21, <1>22, <1>23, <1>24, <1>25, <1>26, <1>27,
     <1>28, <1>29, <1>30, <1>31, <1>32, <1>33
     DEF Next, StepHandler, Step, Packets

LEMMA PhaseStep == StateTypeOK /\ ContextInv /\ PhaseInv /\ Next => PhaseInv'
<1> SUFFICES ASSUME StateTypeOK, ContextInv, PhaseInv, Next
             PROVE  PhaseInv'
  OBVIOUS
<1> USE DEF ContextInv, PhaseInv, States, Idle, Live, Connected, Fault, link, creds,
        heard, wish, bounds
<1>1. CASE StepTimer
  BY <1>1 DEF StepTimer
<1>2. CASE RetransmitHandshake
  BY <1>2 DEF RetransmitHandshake
<1>3. CASE NothingToRetransmit
  BY <1>3 DEF NothingToRetransmit
<1>4. CASE GivesUpRegistering
  BY <1>4 DEF GivesUpRegistering, GivesUp, ForceInitialConnection, CloseServer
<1>5. CASE GivesUpReady
  BY <1>5 DEF GivesUpReady, GivesUp, ForceInitialConnection, CloseServer
<1>6. CASE GivesUpBootstrapping
  BY <1>6 DEF GivesUpBootstrapping, GivesUp
<1>7. CASE GivesUpOtherwise
  BY <1>7 DEF GivesUpOtherwise, GivesUp, FollowClosure, CloseSession, FreeConnections
<1>8. CASE StepRegister
  BY <1>8 DEF StepRegister, Stepping, Done, ConnectServer, Send, HandshakeStarts, Rehandshake
<1>9. CASE StepBootstrap
  BY <1>9 DEF StepBootstrap, Stepping, Done, ConnectServer, Send, HandshakeStarts, Rehandshake
<1>10. CASE StepBootstrapDone
  BY <1>10 DEF StepBootstrapDone, Stepping, CloseServer
<1>11. CASE StepBootstrapFails
  BY <1>11 DEF StepBootstrapFails, Stepping, Done, CloseServer
<1>12. CASE StepRegistrationFails
  BY <1>12 DEF StepRegistrationFails, RegistrationFails, DeleteDmCredentials, Stepping, Done
<1>13. CASE StepUpdateFails
  BY <1>13 DEF StepUpdateFails, Stepping, Done, ForceInitialConnection, CloseServer
<1>14. CASE StepUpdate
  BY <1>14 DEF StepUpdate, Stepping, Done, ConnectServer, Send, HandshakeStarts, Rehandshake
<1>15. CASE StepDeregister
  BY <1>15 DEF StepDeregister, Stepping, Done, ConnectServer, Send, HandshakeStarts, Rehandshake
<1>16. CASE StepDeregisterFails
  BY <1>16 DEF StepDeregisterFails, Stepping, FreeConnections
<1>17. CASE StepAgain
  BY <1>17 DEF StepAgain, Stepping, Done, ServerOf, Awaited, Send, HandshakeStarts, Rehandshake
<1>18. CASE StepNothing
  BY <1>18 DEF StepNothing, Stepping, Done
<1>19. ASSUME NEW s \in Servers, HandshakeDone(s)
      PROVE  PhaseInv'
  BY <1>19 DEF HandshakeDone, Receives
<1>20. ASSUME NEW s \in Servers, HandshakeRefused(s)
      PROVE  PhaseInv'
  BY <1>20 DEF HandshakeRefused, Receives
<1>21. CASE BootstrapFinished
  BY <1>21 DEF BootstrapFinished, Receives
<1>22. CASE Registered
  <2>1. state \in {"REGISTERING", "READY"}
    BY <1>22 DEF Registered, Receives, StateTypeOK
  <2> QED
    BY <1>22, <2>1 DEF Registered, Receives, ManageRegistration
<1>23. CASE RegistrationRefused
  BY <1>23 DEF RegistrationRefused, Receives, RegistrationFails, DeleteDmCredentials
<1>24. CASE Updated
  <2>1. state \in {"REGISTERING", "READY"}
    BY <1>24 DEF Updated, Receives, StateTypeOK
  <2> QED
    BY <1>24, <2>1 DEF Updated, Receives, ManageRegistration
<1>25. CASE Deregistered
  BY <1>25 DEF Deregistered, Receives, FollowClosure
<1>26. CASE PushTimeout
  BY <1>26 DEF PushTimeout, Acknowledged
<1>27. CASE PushExpired
  BY <1>27 DEF PushExpired, Acknowledged, ForceInitialConnection, CloseServer
<1>28. CASE PushRejected
  BY <1>28 DEF PushRejected, Acknowledged, ForceInitialConnection, CloseServer
<1>29. CASE Connect
  BY <1>29 DEF Connect
<1>30. CASE Update
  BY <1>30 DEF Update
<1>31. CASE Disconnect
  BY <1>31 DEF Disconnect, FollowClosure, CloseSession, FreeConnections
<1>32. CASE DisconnectWithDeregister
  <2>1. FollowClosure => PhaseInv'
    BY DEF FollowClosure
  <2>2. CloseSession => PhaseInv'
    BY DEF CloseSession
  <2>3. state = "READY" /\ UNCHANGED <<state, link, creds, heard>> => PhaseInv'
    OBVIOUS
  <2> QED
    BY <1>32, <2>1, <2>2, <2>3 DEF DisconnectWithDeregister
<1>33. CASE InactivityTimer
  BY <1>33 DEF InactivityTimer
<1> QED
  BY <1>1, <1>2, <1>3, <1>4, <1>5, <1>6, <1>7, <1>8, <1>9, <1>10, <1>11, <1>12, <1>13, <1>14,
     <1>15, <1>16, <1>17, <1>18, <1>19, <1>20, <1>21, <1>22, <1>23, <1>24, <1>25, <1>26, <1>27,
     <1>28, <1>29, <1>30, <1>31, <1>32, <1>33
     DEF Next, StepHandler, Step, Packets

LEMMA AnnounceStep ==
  NoClockBack /\ StateTypeOK /\ ContextInv /\ PhaseInv /\ AnnounceInv /\ Next
    => AnnounceInv'
<1> SUFFICES ASSUME NoClockBack, StateTypeOK, ContextInv, PhaseInv, AnnounceInv, Next
             PROVE  AnnounceInv'
  OBVIOUS
<1> USE DEF NoClockBack, StateTypeOK, ContextInv, PhaseInv, AnnounceInv, Reopening, States, Servers,
        Idle, Live, Connected, Fault, link, creds,
        heard, wish, bounds
<1>1. CASE StepTimer
  BY <1>1 DEF StepTimer
<1>2. CASE RetransmitHandshake
  BY <1>2 DEF RetransmitHandshake
<1>3. CASE NothingToRetransmit
  BY <1>3 DEF NothingToRetransmit
<1>4. CASE GivesUpRegistering
  BY <1>4 DEF GivesUpRegistering, GivesUp, ForceInitialConnection, CloseServer
<1>5. CASE GivesUpReady
  BY <1>5 DEF GivesUpReady, GivesUp, ForceInitialConnection, CloseServer
<1>6. CASE GivesUpBootstrapping
  BY <1>6 DEF GivesUpBootstrapping, GivesUp
<1>7. CASE GivesUpOtherwise
  BY <1>7 DEF GivesUpOtherwise, GivesUp, FollowClosure, CloseSession, FreeConnections
<1>8. CASE StepRegister
  BY <1>8 DEF StepRegister, Stepping, Done, ConnectServer, Send, HandshakeStarts, Rehandshake
<1>9. CASE StepBootstrap
  BY <1>9 DEF StepBootstrap, Stepping, Done, ConnectServer, Send, HandshakeStarts, Rehandshake
<1>10. CASE StepBootstrapDone
  BY <1>10 DEF StepBootstrapDone, Stepping, CloseServer
<1>11. CASE StepBootstrapFails
  BY <1>11 DEF StepBootstrapFails, Stepping, Done, CloseServer
<1>12. CASE StepRegistrationFails
  BY <1>12 DEF StepRegistrationFails, RegistrationFails, DeleteDmCredentials, Stepping, Done
<1>13. CASE StepUpdateFails
  BY <1>13 DEF StepUpdateFails, Stepping, Done, ForceInitialConnection, CloseServer
<1>14. CASE StepUpdate
  BY <1>14 DEF StepUpdate, Stepping, Done, ConnectServer, Send, HandshakeStarts, Rehandshake
<1>15. CASE StepDeregister
  BY <1>15 DEF StepDeregister, Stepping, Done, ConnectServer, Send, HandshakeStarts, Rehandshake
<1>16. CASE StepDeregisterFails
  BY <1>16 DEF StepDeregisterFails, Stepping, FreeConnections
<1>17. CASE StepAgain
  BY <1>17 DEF StepAgain, Stepping, Done, ServerOf, Awaited, Send, HandshakeStarts, Rehandshake
<1>18. CASE StepNothing
  BY <1>18 DEF StepNothing, Stepping, Done
<1>19. ASSUME NEW s \in Servers, HandshakeDone(s)
      PROVE  AnnounceInv'
  BY <1>19 DEF HandshakeDone, Receives
<1>20. ASSUME NEW s \in Servers, HandshakeRefused(s)
      PROVE  AnnounceInv'
  BY <1>20 DEF HandshakeRefused, Receives
<1>21. CASE BootstrapFinished
  BY <1>21 DEF BootstrapFinished, Receives
<1>22. CASE Registered
  BY <1>22 DEF Registered, Receives, ManageRegistration
<1>23. CASE RegistrationRefused
  BY <1>23 DEF RegistrationRefused, Receives, RegistrationFails, DeleteDmCredentials
<1>24. CASE Updated
  BY <1>24 DEF Updated, Receives, ManageRegistration
<1>25. CASE Deregistered
  BY <1>25 DEF Deregistered, Receives, FollowClosure
<1>26. CASE PushTimeout
  BY <1>26 DEF PushTimeout, Acknowledged
<1>27. CASE PushExpired
  BY <1>27 DEF PushExpired, Acknowledged, ForceInitialConnection, CloseServer
<1>28. CASE PushRejected
  BY <1>28 DEF PushRejected, Acknowledged, ForceInitialConnection, CloseServer
<1>29. CASE Connect
  BY <1>29 DEF Connect
<1>30. CASE Update
  BY <1>30 DEF Update
<1>31. CASE Disconnect
  BY <1>31 DEF Disconnect, FollowClosure, CloseSession, FreeConnections
<1>32. CASE DisconnectWithDeregister
  BY <1>32 DEF DisconnectWithDeregister, FollowClosure, CloseSession, FreeConnections
<1>33. CASE InactivityTimer
  BY <1>33 DEF InactivityTimer
<1> QED
  BY <1>1, <1>2, <1>3, <1>4, <1>5, <1>6, <1>7, <1>8, <1>9, <1>10, <1>11, <1>12, <1>13, <1>14,
     <1>15, <1>16, <1>17, <1>18, <1>19, <1>20, <1>21, <1>22, <1>23, <1>24, <1>25, <1>26, <1>27,
     <1>28, <1>29, <1>30, <1>31, <1>32, <1>33
     DEF Next, StepHandler, Step, Packets

\* What tinydtls and the acknowledgements announce has the type of BootstrapSession
StatusHasType ==
  status' # status /\ status'.event = "AUTHENTICATION_STARTED"
    => status'.type = Kind'

LEMMA StatusStep == StateTypeOK /\ Next => StatusHasType
<1> SUFFICES ASSUME StateTypeOK, Next
             PROVE  StatusHasType
  OBVIOUS
<1> USE DEF StateTypeOK, Servers, Events, StatusHasType, Kind, Idle, Live, Connected, Fault, link, creds,
        heard, wish, bounds
<1>1. CASE StepTimer
  BY <1>1 DEF StepTimer
<1>2. CASE RetransmitHandshake
  BY <1>2 DEF RetransmitHandshake
<1>3. CASE NothingToRetransmit
  BY <1>3 DEF NothingToRetransmit
<1>4. CASE GivesUpRegistering
  BY <1>4 DEF GivesUpRegistering, GivesUp, ForceInitialConnection, CloseServer
<1>5. CASE GivesUpReady
  BY <1>5 DEF GivesUpReady, GivesUp, ForceInitialConnection, CloseServer
<1>6. CASE GivesUpBootstrapping
  BY <1>6 DEF GivesUpBootstrapping, GivesUp
<1>7. CASE GivesUpOtherwise
  BY <1>7 DEF GivesUpOtherwise, GivesUp, FollowClosure, CloseSession, FreeConnections
<1>8. CASE StepRegister
  BY <1>8 DEF StepRegister, Stepping, Done, ConnectServer, Send, HandshakeStarts, Rehandshake
<1>9. CASE StepBootstrap
  BY <1>9 DEF StepBootstrap, Stepping, Done, ConnectServer, Send, HandshakeStarts, Rehandshake
<1>10. CASE StepBootstrapDone
  BY <1>10 DEF StepBootstrapDone, Stepping, CloseServer
<1>11. CASE StepBootstrapFails
  BY <1>11 DEF StepBootstrapFails, Stepping, Done, CloseServer
<1>12. CASE StepRegistrationFails
  BY <1>12 DEF StepRegistrationFails, RegistrationFails, DeleteDmCredentials, Stepping, Done
<1>13. CASE StepUpdateFails
  BY <1>13 DEF StepUpdateFails, Stepping, Done, ForceInitialConnection, CloseServer
<1>14. CASE StepUpdate
  BY <1>14 DEF StepUpdate, Stepping, Done, ConnectServer, Send, HandshakeStarts, Rehandshake
<1>15. CASE StepDeregister
  BY <1>15 DEF StepDeregister, Stepping, Done, ConnectServer, Send, HandshakeStarts, Rehandshake
<1>16. CASE StepDeregisterFails
  BY <1>16 DEF StepDeregisterFails, Stepping, FreeConnections
<1>17. CASE StepAgain
  BY <1>17 DEF StepAgain, Stepping, Done, ServerOf, Awaited, Send, HandshakeStarts, Rehandshake
<1>18. CASE StepNothing
  BY <1>18 DEF StepNothing, Stepping, Done
<1>19. ASSUME NEW s \in Servers, HandshakeDone(s)
      PROVE  StatusHasType
  BY <1>19 DEF HandshakeDone, Receives
<1>20. ASSUME NEW s \in Servers, HandshakeRefused(s)
      PROVE  StatusHasType
  BY <1>20 DEF HandshakeRefused, Receives
<1>21. CASE BootstrapFinished
  BY <1>21 DEF BootstrapFinished, Receives
<1>22. CASE Registered
  BY <1>22 DEF Registered, Receives, ManageRegistration
<1>23. CASE RegistrationRefused
  BY <1>23 DEF RegistrationRefused, Receives, RegistrationFails, DeleteDmCredentials
<1>24. CASE Updated
  BY <1>24 DEF Updated, Receives, ManageRegistration
<1>25. CASE Deregistered
  BY <1>25 DEF Deregistered, Receives, FollowClosure
<1>26. CASE PushTimeout
  BY <1>26 DEF PushTimeout, Acknowledged
<1>27. CASE PushExpired
  BY <1>27 DEF PushExpired, Acknowledged, ForceInitialConnection, CloseServer
<1>28. CASE PushRejected
  BY <1>28 DEF PushRejected, Acknowledged, ForceInitialConnection, CloseServer
<1>29. CASE Connect
  BY <1>29 DEF Connect
<1>30. CASE Update
  BY <1>30 DEF Update
<1>31. CASE Disconnect
  BY <1>31 DEF Disconnect, FollowClosure, CloseSession, FreeConnections
<1>32. CASE DisconnectWithDeregister
  BY <1>32 DEF DisconnectWithDeregister, FollowClosure, CloseSession, FreeConnections
<1>33. CASE InactivityTimer
  BY <1>33 DEF InactivityTimer
<1> QED
  BY <1>1, <1>2, <1>3, <1>4, <1>5, <1>6, <1>7, <1>8, <1>9, <1>10, <1>11, <1>12, <1>13, <1>14,
     <1>15, <1>16, <1>17, <1>18, <1>19, <1>20, <1>21, <1>22, <1>23, <1>24, <1>25, <1>26, <1>27,
     <1>28, <1>29, <1>30, <1>31, <1>32, <1>33
     DEF Next, StepHandler, Step, Packets

LEMMA StateTypeInit == Init => StateTypeOK
  BY DEF Init, StateTypeOK, States, Events, Servers

LEMMA PhaseInit == Init => PhaseInv
  BY DEF Init, PhaseInv

LEMMA AnnounceInit == Init => AnnounceInv
  BY DEF Init, AnnounceInv, Live, Servers

\* The state of the session, whatever troubles occur
PhasesInv == StateTypeOK /\ ContextInv /\ PhaseInv

LEMMA PhasesHold == Spec => []PhasesInv
<1>1. Init => PhasesInv
  BY StateTypeInit, PhaseInit, ContextInit DEF PhasesInv
<1>2. PhasesInv /\ UNCHANGED vars => PhasesInv'
  BY DEF PhasesInv, StateTypeOK, ContextInv, PhaseInv, vars, link, creds, heard, wish
<1>3. PhasesInv /\ [Next]_vars => PhasesInv'
  BY <1>2, StateTypeStep, PhaseStep, ContextStep DEF PhasesInv
<1> QED
  BY <1>1, <1>3, PTL DEF Spec

\* Whatever troubles occur, if the clock does not go back: a registered session was
\* announced since the application connected, also one that was only updated.
THEOREM AnnouncedCorrect ==
  ASSUME NoClockBack
  PROVE  Spec => []RegisteredIsAnnounced
<1>1. AnnounceInv /\ UNCHANGED vars => AnnounceInv'
  BY DEF AnnounceInv, Reopening, Live, vars, link, creds, heard
<1>2. PhasesInv /\ AnnounceInv /\ [Next]_vars => AnnounceInv'
  BY <1>1, AnnounceStep DEF PhasesInv
<1>3. AnnounceInv => RegisteredIsAnnounced
  BY DEF AnnounceInv, RegisteredIsAnnounced
<1> QED
  BY <1>2, <1>3, AnnounceInit, PhasesHold, PTL DEF Spec

\* An authentication is announced with the type of the session that is under way,
\* with every trouble allowed.
THEOREM TypeOfStatusCorrect == Spec => TypeIsTrue
<1>1. ASSUME PhasesInv, PhasesInv', Next
      PROVE  status' # status /\ status'.event = "AUTHENTICATION_STARTED" /\ state' # "INITIAL"
               => status'.type = ServerOf'
  <2>1. state' # "INITIAL" => (bootstrapSession' <=> state' = "BOOTSTRAPPING")
    BY <1>1 DEF PhasesInv, PhaseInv
  <2>2. StatusHasType
    BY <1>1, StatusStep DEF PhasesInv
  <2> QED
    BY <2>1, <2>2 DEF StatusHasType, Kind, ServerOf
<1>2. PhasesInv /\ PhasesInv' /\ [Next]_vars
        => [/\ status' # status /\ status'.event = "AUTHENTICATION_STARTED"
            /\ state' # "INITIAL"
            => status'.type = ServerOf']_vars
  BY <1>1
<1> QED
  BY <1>2, PhasesHold, PTL DEF Spec, TypeIsTrue
=============================================================================
