--------------------------- MODULE Session_proofs ---------------------------
(***************************************************************************)
(* Proofs about Session: who talks to whom after the handshake, and what a *)
(* session leaves behind, for any number of attempts, sessions and failed  *)
(* hdc commands, and however long the kernel's queue is.                   *)
(***************************************************************************)
EXTENDS Session, TLAPS

-----------------------------------------------------------------------------
\* The type invariant, with what main of the client has when.

Connecting ==
    {"forwardVideo", "forwardControl", "push", "stopOld", "launch",
     "connectVideo", "connectControl"}
Handshaking == {"request", "response"}
Connected == {"running", "cleanup", "unforward", "disconnect", "join"}

StagesHold ==
    /\ client \in Connecting => attempt < MaxAttempts
    /\ client \in Connecting \cup Handshaking \cup {"running"} => session >= 1
    /\ client \in {"connectControl"} \cup Handshaking => cli["video"] # None
    /\ client \in Handshaking \cup {"running"} => cli["control"] # None
    /\ threads # {} => client \in Connected
    /\ \A ch \in threads : cli[ch] # None
    /\ srv \in {"sendResponse", "connected"} => sfd["control"] \in asked

ClientOK ==
    /\ client \in Connecting \cup Handshaking \cup Connected \cup {"off", "done"}
    /\ session \in 0..MaxSessions
    /\ attempt \in 0..MaxAttempts
    /\ cli \in [Channels -> Conns \cup {None}]
    /\ threads \subseteq Channels
    /\ forwards \subseteq Channels
    /\ hdcFails \in 0..MaxHdcFails

ServerOK ==
    /\ srv \in {"off", "init", "listenVideo", "listenControl", "acceptVideo",
                "acceptControl", "recvRequest", "sendResponse", "connected"}
    /\ sfd \in [Channels -> Conns \cup {None}]
    /\ backlog \in [Channels -> Seq(Conns)]

WireOK == asked \subseteq Conns /\ answered \subseteq Conns /\ closed \subseteq Conns

IInv == ClientOK /\ ServerOK /\ WireOK /\ StagesHold

LEMMA InvGivesType == IInv => TypeOK
  BY DEF IInv, ClientOK, ServerOK, WireOK, TypeOK, Connecting, Handshaking, Connected

LEMMA NoneIsNoConn == None \notin Conns
  BY DEF None, Conns

\* The server ends: what it had open is closed.
LEMMA GoneOK ==
    ASSUME IInv, ServerGone
    PROVE  ServerOK' /\ WireOK' /\ srv' = "off" /\ asked' = asked
  <1>1. ServerConns \ {None} \subseteq Conns
    <2>1. \A ch \in Channels : sfd[ch] \in Conns \cup {None}
      BY DEF IInv, ServerOK
    <2>2. \A ch \in Channels : \A i \in DOMAIN backlog[ch] : backlog[ch][i] \in Conns
      BY DEF IInv, ServerOK
    <2>3. QED
      BY <2>1, <2>2 DEF ServerConns
  <1>2. WireOK'
    BY <1>1 DEF IInv, WireOK, ServerGone
  <1>3. ServerOK'
    BY DEF ServerOK, ServerGone
  <1>4. QED
    BY <1>2, <1>3 DEF ServerGone

\* The last hdc command may have been one that may fail.
LEMMA FailsOK ==
    ASSUME IInv, HdcFails \/ UNCHANGED hdcFails
    PROVE  hdcFails' \in 0..MaxHdcFails
  BY ConstantsAssumption DEF IInv, ClientOK, HdcFails

\* A connection of this session and this attempt.
LEMMA ConnectOK ==
    ASSUME IInv, session >= 1, NEW ch \in Channels, NEW next, Connect(ch, next)
    PROVE  /\ cli' \in [Channels -> Conns \cup {None}]
           /\ backlog' \in [Channels -> Seq(Conns)]
           /\ cli'[ch] # None
           /\ \A other \in Channels \ {ch} : cli'[other] = cli[other]
  <1> DEFINE conn == [ch |-> ch, session |-> session, attempt |-> attempt]
  <1>1. conn \in Conns
    BY ConstantsAssumption DEF IInv, ClientOK, Conns
  <1>2. cli' = [cli EXCEPT ![ch] = conn] /\ backlog' = [backlog EXCEPT ![ch] = Append(@, conn)]
    BY DEF Connect
  <1>3. Append(backlog[ch], conn) \in Seq(Conns)
    BY <1>1 DEF IInv, ServerOK
  <1> HIDE DEF conn
  <1>4. QED
    BY <1>1, <1>2, <1>3, NoneIsNoConn DEF IInv, ClientOK, ServerOK

LEMMA InvInit == Init => IInv
  BY ConstantsAssumption
     DEF Init, IInv, ClientOK, ServerOK, WireOK, StagesHold, Connecting, Handshaking, Connected

\* Every action keeps the types and the stages.
LEMMA InvStep == IInv /\ [Next]_vars => IInv'
  <1> SUFFICES ASSUME IInv, [Next]_vars PROVE IInv'
    OBVIOUS
  <1> USE ConstantsAssumption, NoneIsNoConn
      DEF IInv, ClientOK, ServerOK, WireOK, StagesHold, Connecting, Handshaking, Connected,
          Channels, clientVars, hdcVars, serverVars, wire
  <1>1. CASE StartClient
    BY <1>1 DEF StartClient
  <1>2. CASE ForwardVideo
    BY <1>2, FailsOK DEF ForwardVideo, GoTo
  <1>3. CASE ForwardControl
    BY <1>3, FailsOK DEF ForwardControl, GoTo
  <1>4. CASE PushServer
    BY <1>4, FailsOK DEF PushServer, GoTo
  <1>5. CASE StopOld
    BY <1>5, FailsOK, GoneOK DEF StopOld, KillServer, GoTo
  <1>6. CASE Launch
    BY <1>6, FailsOK DEF Launch, GoTo
  <1>7. CASE ConnectVideo
    BY <1>7, ConnectOK DEF ConnectVideo, Connect
  <1>8. CASE ConnectVideoFails
    BY <1>8 DEF ConnectVideoFails, Retry
  <1>9. CASE ConnectControl
    BY <1>9, ConnectOK DEF ConnectControl, Connect
  <1>10. CASE ConnectControlFails
    BY <1>10 DEF ConnectControlFails, Retry
  <1>11. CASE SendRequest
    BY <1>11 DEF SendRequest, GoTo
  <1>12. CASE RecvResponse
    BY <1>12 DEF RecvResponse
  <1>13. CASE RendererFails
    BY <1>13 DEF RendererFails, GoTo
  <1>14. CASE HandshakeFails
    BY <1>14 DEF HandshakeFails, GoTo
  <1>15. CASE Quit
    BY <1>15 DEF Quit, GoTo
  <1>16. CASE StopServer
    BY <1>16, FailsOK, GoneOK DEF StopServer, KillServer, GoTo
  <1>17. CASE RemoveForwards
    BY <1>17, FailsOK DEF RemoveForwards, GoTo
  <1>18. CASE Disconnect
    <2>1. threads' \subseteq threads
      BY <1>18 DEF Disconnect
    <2>2. closed' \subseteq Conns
      BY <1>18 DEF Disconnect
    <2>3. QED
      BY <1>18, <2>1, <2>2 DEF Disconnect
  <1>19. CASE Join
    BY <1>19 DEF Join
  <1>20. CASE Crash
    BY <1>20 DEF Crash
  <1>21. CASE \E ch \in Channels : ThreadEnds(ch)
    BY <1>21 DEF ThreadEnds
  <1>22. CASE \E ch \in Channels : ThreadReceives(ch)
    BY <1>22 DEF ThreadReceives
  <1>23. CASE ServerInit
    BY <1>23 DEF ServerInit
  <1>24. CASE Listen
    BY <1>24 DEF Listen, Step
  <1>25. CASE AcceptVideo
    BY <1>25 DEF AcceptVideo, Accept, Step
  <1>26. CASE AcceptControl
    BY <1>26 DEF AcceptControl, Accept, Step
  <1>27. CASE RecvRequest
    BY <1>27 DEF RecvRequest, Step
  <1>28. CASE RecvRequestFails
    BY <1>28, GoneOK DEF RecvRequestFails
  <1>29. CASE SendResponse
    BY <1>29 DEF SendResponse, Step
  <1>30. CASE SendResponseFails
    BY <1>30, GoneOK DEF SendResponseFails
  <1>31. CASE ServerDies
    BY <1>31, GoneOK DEF ServerDies
  <1>32. CASE UNCHANGED vars
    BY <1>32 DEF vars
  <1>33. QED
    BY <1>1, <1>2, <1>3, <1>4, <1>5, <1>6, <1>7, <1>8, <1>9, <1>10, <1>11, <1>12, <1>13, <1>14,
       <1>15, <1>16, <1>17, <1>18, <1>19, <1>20, <1>21, <1>22, <1>23, <1>24, <1>25, <1>26,
       <1>27, <1>28, <1>29, <1>30, <1>31, <1>32
       DEF Next, Hdc, Handshake, Cleanup, Server

\* Session has the types it states: the attempts never exceed the limit.
THEOREM TypeCorrect == Spec => []TypeOK
  BY InvInit, InvStep, InvGivesType, PTL DEF Spec

-----------------------------------------------------------------------------
\* What a session leaves behind, from where main kills the server on.

Leaving == {"unforward", "disconnect", "join", "done"}

ExitHolds ==
    hdcFails = 0 =>
        /\ client \in Leaving => srv = "off"
        /\ client \in Leaving \ {"unforward"} => forwards = {}

LEMMA ExitStep == IInv /\ ExitHolds /\ [Next]_vars => ExitHolds'
  <1> SUFFICES ASSUME IInv, ExitHolds, [Next]_vars PROVE ExitHolds'
    OBVIOUS
  <1>0. HdcFails => hdcFails' # 0
    BY DEF IInv, ClientOK, HdcFails
  <1>1. CASE StartClient \/ Quit
    BY <1>1 DEF StartClient, Quit, GoTo, ExitHolds, Leaving
  <1>2. CASE Hdc
    BY <1>0, <1>2
       DEF Hdc, ForwardVideo, ForwardControl, PushServer, StopOld, Launch, KillServer, GoTo,
           ExitHolds, Leaving
  <1>3. CASE Handshake
    BY <1>3
       DEF Handshake, ConnectVideo, ConnectControl, Connect, ConnectVideoFails,
           ConnectControlFails, Retry, SendRequest, RecvResponse, RendererFails,
           HandshakeFails, GoTo, ExitHolds, Leaving
  <1>4. CASE StopServer
    BY <1>0, <1>4 DEF StopServer, KillServer, ServerGone, GoTo, ExitHolds, Leaving
  <1>5. CASE RemoveForwards
    BY <1>0, <1>5 DEF RemoveForwards, GoTo, ExitHolds, Leaving, serverVars
  <1>6. CASE Disconnect \/ Join \/ Crash
    BY <1>6 DEF Disconnect, Join, Crash, hdcVars, serverVars, ExitHolds, Leaving
  <1>7. CASE \E ch \in Channels : ThreadEnds(ch) \/ ThreadReceives(ch)
    BY <1>7 DEF ThreadEnds, ThreadReceives, hdcVars, serverVars, ExitHolds
  <1>8. CASE Server \/ ServerDies
    BY <1>8
       DEF Server, ServerInit, Listen, AcceptVideo, AcceptControl, RecvRequest,
           RecvRequestFails, SendResponse, SendResponseFails, ServerDies, ServerGone, Step,
           Accept, clientVars, hdcVars, ExitHolds
  <1>9. CASE UNCHANGED vars
    BY <1>9 DEF vars, clientVars, hdcVars, serverVars, ExitHolds
  <1>10. QED
    BY <1>1, <1>2, <1>3, <1>4, <1>5, <1>6, <1>7, <1>8, <1>9 DEF Next, Cleanup

\* Whichever way main of the client comes to its end, no server and no forward is
\* left, for any number of attempts and sessions.
THEOREM ExitIsClean == Spec => []CleanExit
  <1>1. Init => ExitHolds
    BY DEF Init, ExitHolds, Leaving
  <1>2. ExitHolds => CleanExit
    BY DEF ExitHolds, CleanExit, Leaving
  <1>3. QED
    BY <1>1, <1>2, InvInit, InvStep, ExitStep, PTL DEF Spec

-----------------------------------------------------------------------------
(***************************************************************************)
(* The control connection: only connections of this session's handshake,   *)
(* or of earlier sessions, carry a request, so that the answered one is    *)
(* the client's own.                                                       *)
(***************************************************************************)
Asking == Handshaking \cup {"running"}

AskedHolds ==
    /\ answered \subseteq asked
    /\ \A conn \in asked :
        \/ conn.session < session
        \/ conn.session = session /\ client \notin Connecting \cup {"request"}
    /\ client \in Asking => cli["control"].session = session

OwnServer ==
    client \in Asking /\ cli["control"] \in answered /\ srv # "off" =>
        srv = "connected" /\ sfd["control"] = cli["control"]

RunsAnswered == client = "running" => cli["control"] \in answered

LEMMA AskedStep == IInv /\ AskedHolds /\ [Next]_vars => AskedHolds'
  <1> SUFFICES ASSUME IInv, AskedHolds, [Next]_vars PROVE AskedHolds'
    OBVIOUS
  <1>0. session \in Nat /\ \A conn \in asked : conn.session \in Nat
    BY ConstantsAssumption DEF IInv, ClientOK, WireOK, Conns
  <1> USE DEF AskedHolds, Asking, Connecting, Handshaking, clientVars, wire
  <1>1. CASE StartClient \/ Quit
    BY <1>0, <1>1 DEF StartClient, Quit, GoTo
  <1>2. CASE Hdc
    BY <1>0, <1>2
       DEF Hdc, ForwardVideo, ForwardControl, PushServer, StopOld, Launch, KillServer,
           ServerGone, GoTo
  <1>3. CASE ConnectVideo
    BY <1>0, <1>3 DEF ConnectVideo, Connect
  <1>4. CASE ConnectControl
    <2>1. cli'["control"].session = session
      BY <1>4 DEF ConnectControl, Connect, IInv, ClientOK, Channels
    <2>2. QED
      BY <1>0, <1>4, <2>1 DEF ConnectControl, Connect
  <1>5. CASE ConnectVideoFails \/ ConnectControlFails
    BY <1>0, <1>5 DEF ConnectVideoFails, ConnectControlFails, Retry
  <1>6. CASE SendRequest
    BY <1>0, <1>6 DEF SendRequest, GoTo
  <1>7. CASE RecvResponse \/ RendererFails \/ HandshakeFails
    BY <1>0, <1>7 DEF RecvResponse, RendererFails, HandshakeFails, GoTo
  <1>8. CASE Cleanup
    BY <1>0, <1>8
       DEF Cleanup, StopServer, KillServer, ServerGone, RemoveForwards, Disconnect, Join, GoTo
  <1>9. CASE Crash
    BY <1>0, <1>9 DEF Crash
  <1>10. CASE \E ch \in Channels : ThreadEnds(ch) \/ ThreadReceives(ch)
    BY <1>0, <1>10 DEF ThreadEnds, ThreadReceives
  <1>11. CASE SendResponse
    <2>1. sfd["control"] \in asked
      BY <1>11 DEF SendResponse, Step, IInv, StagesHold
    <2>2. QED
      BY <1>0, <1>11, <2>1 DEF SendResponse
  <1>12. CASE (Server /\ ~SendResponse) \/ ServerDies
    BY <1>0, <1>12
       DEF Server, ServerInit, Listen, AcceptVideo, AcceptControl, Accept, RecvRequest,
           RecvRequestFails, SendResponseFails, ServerDies, ServerGone
  <1>13. CASE UNCHANGED vars
    BY <1>13 DEF vars
  <1>14. QED
    BY <1>1, <1>2, <1>3, <1>4, <1>5, <1>6, <1>7, <1>8, <1>9, <1>10, <1>11, <1>12, <1>13
       DEF Next, Handshake

LEMMA OwnStep ==
    IInv /\ AskedHolds /\ OwnServer /\ RunsAnswered /\ [Next]_vars => OwnServer' /\ RunsAnswered'
  <1> SUFFICES ASSUME IInv, AskedHolds, OwnServer, RunsAnswered, [Next]_vars
               PROVE  OwnServer' /\ RunsAnswered'
    OBVIOUS
  <1> USE DEF OwnServer, RunsAnswered, Asking, Connecting, Handshaking, clientVars, serverVars,
              wire
  <1>1. CASE StartClient \/ Quit
    BY <1>1 DEF StartClient, Quit, GoTo
  <1>2. CASE Hdc
    BY <1>2 DEF Hdc, ForwardVideo, ForwardControl, PushServer, StopOld, Launch, GoTo
  <1>3. CASE ConnectVideo
    BY <1>3 DEF ConnectVideo, Connect
  <1>4. CASE ConnectControl
    <2>1. cli'["control"].session = session
      BY <1>4 DEF ConnectControl, Connect, IInv, ClientOK, Channels
    <2>2. \A conn \in answered : conn.session # session
      <3>1. session \in Nat /\ \A conn \in asked : conn.session \in Nat
        BY ConstantsAssumption DEF IInv, ClientOK, WireOK, Conns
      <3>2. QED
        BY <1>4, <3>1 DEF ConnectControl, AskedHolds
    <2>3. QED
      BY <1>4, <2>1, <2>2 DEF ConnectControl, Connect
  <1>5. CASE ConnectVideoFails \/ ConnectControlFails
    BY <1>5 DEF ConnectVideoFails, ConnectControlFails, Retry
  <1>6. CASE SendRequest \/ RecvResponse
    BY <1>6 DEF SendRequest, RecvResponse, GoTo
  <1>7. CASE RendererFails \/ HandshakeFails \/ Cleanup \/ Crash
    BY <1>7
       DEF RendererFails, HandshakeFails, Cleanup, StopServer, RemoveForwards, Disconnect,
           Join, Crash, GoTo
  <1>8. CASE \E ch \in Channels : ThreadEnds(ch) \/ ThreadReceives(ch)
    BY <1>8 DEF ThreadEnds, ThreadReceives
  <1>9. CASE SendResponse
    BY <1>9 DEF SendResponse, Step
  <1>10. CASE (Server /\ ~SendResponse) \/ ServerDies
    BY <1>10
       DEF Server, ServerInit, Listen, AcceptVideo, AcceptControl, Accept, RecvRequest, Step,
           RecvRequestFails, SendResponseFails, ServerDies, ServerGone
  <1>11. CASE UNCHANGED vars
    BY <1>11 DEF vars
  <1>12. QED
    BY <1>1, <1>2, <1>3, <1>4, <1>5, <1>6, <1>7, <1>8, <1>9, <1>10, <1>11 DEF Next, Handshake

OwnInv == AskedHolds /\ OwnServer /\ RunsAnswered

LEMMA OwnInit == Init => OwnInv
  BY DEF Init, OwnInv, AskedHolds, OwnServer, RunsAnswered, Asking, Handshaking

\* A client that runs and a server that is connected share the control connection,
\* after any number of attempts and with servers of earlier sessions still there.
THEOREM ControlIsShared == Spec => []SameControl
  <1>1. OwnInv => SameControl
    BY DEF OwnInv, OwnServer, RunsAnswered, Asking, SameControl
  <1>2. IInv /\ OwnInv /\ [Next]_vars => OwnInv'
    BY AskedStep, OwnStep DEF OwnInv
  <1>3. QED
    BY <1>1, <1>2, InvInit, InvStep, OwnInit, PTL DEF Spec

-----------------------------------------------------------------------------
(***************************************************************************)
(* The video connection: after a first attempt that succeeds, it is the    *)
(* only one the server can accept.                                         *)
(***************************************************************************)
OffHolds == srv \in {"off", "init"} => \A ch \in Channels : backlog[ch] = <<>> /\ sfd[ch] = None

BeforeVideo == {"off", "init", "listenVideo", "listenControl", "acceptVideo"}

FirstVideo ==
    hdcFails = 0 /\ attempt = 0 =>
        /\ client = "launch" => srv = "off"
        /\ client = "connectVideo" => backlog["video"] = <<>> /\ srv \in BeforeVideo
        /\ client \in {"connectControl"} \cup Asking =>
              \/ srv = "off"
              \/ srv \in BeforeVideo /\ backlog["video"] = <<cli["video"]>>
              \/ srv \notin BeforeVideo /\ sfd["video"] = cli["video"]

LEMMA OffStep == IInv /\ OffHolds /\ [Next]_vars => OffHolds'
  <1> SUFFICES ASSUME IInv, OffHolds, [Next]_vars PROVE OffHolds'
    OBVIOUS
  <1>1. CASE ServerGone
    BY <1>1 DEF ServerGone, OffHolds
  <1>2. CASE UNCHANGED serverVars
    BY <1>2 DEF serverVars, OffHolds
  <1>3. CASE Launch
    BY <1>3 DEF Launch, OffHolds
  <1>4. CASE ConnectVideo \/ ConnectControl
    BY <1>4 DEF ConnectVideo, ConnectControl, Connect, Listening, OffHolds
  <1>5. CASE ServerInit
    BY <1>5 DEF ServerInit, OffHolds
  <1>6. CASE Listen \/ RecvRequest \/ SendResponse \/ AcceptVideo \/ AcceptControl
    BY <1>6 DEF Listen, RecvRequest, SendResponse, AcceptVideo, AcceptControl, Step, OffHolds
  <1>7. CASE StartClient \/ Quit \/ Cleanup \/ Crash \/ (Hdc /\ ~Launch)
    BY <1>1, <1>2, <1>7
       DEF StartClient, Quit, Cleanup, StopServer, KillServer, RemoveForwards, Disconnect,
           Join, Crash, Hdc, ForwardVideo, ForwardControl, PushServer, StopOld, serverVars
  <1>8. CASE Handshake /\ ~ConnectVideo /\ ~ConnectControl
    BY <1>2, <1>8
       DEF Handshake, ConnectVideoFails, ConnectControlFails, SendRequest, RecvResponse,
           RendererFails, HandshakeFails
  <1>9. CASE \E ch \in Channels : ThreadEnds(ch) \/ ThreadReceives(ch)
    BY <1>2, <1>9 DEF ThreadEnds, ThreadReceives
  <1>10. CASE RecvRequestFails \/ SendResponseFails \/ ServerDies
    BY <1>1, <1>10 DEF RecvRequestFails, SendResponseFails, ServerDies
  <1>11. CASE UNCHANGED vars
    BY <1>2, <1>11 DEF vars
  <1>12. QED
    BY <1>3, <1>4, <1>5, <1>6, <1>7, <1>8, <1>9, <1>10, <1>11 DEF Next, Server

LEMMA FirstStep == IInv /\ OffHolds /\ FirstVideo /\ [Next]_vars => FirstVideo'
  <1> SUFFICES ASSUME IInv, OffHolds, FirstVideo, [Next]_vars PROVE FirstVideo'
    OBVIOUS
  <1>0. HdcFails => hdcFails' # 0
    BY DEF IInv, ClientOK, HdcFails
  <1> USE DEF FirstVideo, BeforeVideo, Asking, Handshaking, clientVars, hdcVars, serverVars
  <1>1. CASE StartClient \/ Quit
    BY <1>1 DEF StartClient, Quit, GoTo
  <1>2. CASE ForwardVideo \/ ForwardControl \/ PushServer
    BY <1>0, <1>2 DEF ForwardVideo, ForwardControl, PushServer, GoTo
  <1>3. CASE StopOld
    BY <1>0, <1>3 DEF StopOld, KillServer, ServerGone, GoTo
  <1>4. CASE Launch
    BY <1>0, <1>4 DEF Launch, GoTo, OffHolds, Channels
  <1>5. CASE ConnectVideo
    <2>1. SUFFICES ASSUME hdcFails = 0, attempt = 0
                   PROVE  backlog'["video"] = <<cli'["video"]>> /\ srv' \in BeforeVideo
      BY <1>5 DEF ConnectVideo, Connect
    <2>2. backlog["video"] = <<>> /\ srv \in BeforeVideo
      BY <1>5, <2>1 DEF ConnectVideo
    <2>3. backlog'["video"] = Append(backlog["video"], cli'["video"]) /\ srv' = srv
      BY <1>5 DEF ConnectVideo, Connect, IInv, ClientOK, ServerOK, Channels
    <2>4. QED
      BY <2>2, <2>3
  <1>6. CASE ConnectControl
    <2>1. cli'["video"] = cli["video"] /\ backlog'["video"] = backlog["video"]
      BY <1>6 DEF ConnectControl, Connect, IInv, ClientOK, ServerOK, Channels
    <2>2. QED
      BY <1>6, <2>1 DEF ConnectControl, Connect
  <1>7. CASE ConnectVideoFails \/ ConnectControlFails
    <2>1. attempt' # 0
      BY <1>7, ConstantsAssumption DEF ConnectVideoFails, ConnectControlFails, Retry, IInv, ClientOK
    <2>2. QED
      BY <2>1
  <1>8. CASE SendRequest \/ RecvResponse \/ RendererFails \/ HandshakeFails
    BY <1>8 DEF SendRequest, RecvResponse, RendererFails, HandshakeFails, GoTo
  <1>9. CASE Cleanup \/ Crash
    BY <1>9
       DEF Cleanup, StopServer, RemoveForwards, Disconnect, Join, Crash, GoTo
  <1>10. CASE \E ch \in Channels : ThreadEnds(ch) \/ ThreadReceives(ch)
    BY <1>10 DEF ThreadEnds, ThreadReceives
  <1>11. CASE ServerInit \/ Listen \/ RecvRequest \/ SendResponse
    BY <1>11 DEF ServerInit, Listen, RecvRequest, SendResponse, Step
  <1>12. CASE AcceptVideo
    <2>1. /\ sfd'["video"] = Head(backlog["video"])
          /\ backlog["video"] # <<>>
          /\ srv \in BeforeVideo /\ srv # "off" /\ srv' \notin BeforeVideo
      BY <1>12 DEF AcceptVideo, Accept, Step, IInv, ServerOK, Channels
    <2>2. Head(<<cli["video"]>>) = cli["video"]
      OBVIOUS
    <2>3. client' = client /\ cli' = cli /\ attempt' = attempt /\ hdcFails' = hdcFails
      BY <1>12 DEF AcceptVideo, Accept
    <2>4. srv # "off" /\ (client = "connectVideo" => backlog["video"] # <<>>)
      BY <2>1
    <2>5. QED
      BY <2>1, <2>2, <2>3, <2>4
  <1>13. CASE AcceptControl
    <2>1. sfd'["video"] = sfd["video"] /\ backlog'["video"] = backlog["video"]
      BY <1>13 DEF AcceptControl, Accept, IInv, ServerOK, Channels
    <2>2. QED
      BY <1>13, <2>1 DEF AcceptControl, Accept, Step
  <1>14. CASE RecvRequestFails \/ SendResponseFails \/ ServerDies
    <2>1. srv' = "off" /\ backlog'["video"] = <<>>
      BY <1>14 DEF RecvRequestFails, SendResponseFails, ServerDies, ServerGone, Channels
    <2>2. client' = client /\ attempt' = attempt /\ hdcFails' = hdcFails
      BY <1>14 DEF RecvRequestFails, SendResponseFails, ServerDies
    <2>3. QED
      BY <2>1, <2>2
  <1>15. CASE UNCHANGED vars
    BY <1>15 DEF vars
  <1>16. QED
    BY <1>1, <1>2, <1>3, <1>4, <1>5, <1>6, <1>7, <1>8, <1>9, <1>10, <1>11, <1>12, <1>13,
       <1>14, <1>15
       DEF Next, Hdc, Handshake, Server

\* If the first attempt succeeds and no hdc command has failed, both connections
\* are shared, whatever was killed before.
THEOREM ConnectionsAreShared == Spec => []SameConnections
  <1>1. Init => OffHolds /\ FirstVideo
    BY DEF Init, OffHolds, FirstVideo, Asking, Handshaking
  <1>2. IInv /\ OwnInv /\ FirstVideo => SameConnections
    <2>1. SUFFICES ASSUME IInv, OwnInv, FirstVideo, client = "running", srv = "connected",
                          attempt = 0, hdcFails = 0
                   PROVE  sfd = cli
      BY DEF SameConnections
    <2>2. sfd["control"] = cli["control"]
      BY <2>1 DEF OwnInv, OwnServer, RunsAnswered, Asking
    <2>3. sfd["video"] = cli["video"]
      BY <2>1 DEF FirstVideo, Asking, BeforeVideo
    <2>4. \A ch \in Channels : sfd[ch] = cli[ch]
      BY <2>2, <2>3 DEF Channels
    <2>5. sfd \in [Channels -> Conns \cup {None}] /\ cli \in [Channels -> Conns \cup {None}]
      BY <2>1 DEF IInv, ClientOK, ServerOK
    <2>6. QED
      BY <2>4, <2>5
  <1>3. IInv /\ OwnInv /\ [Next]_vars => OwnInv'
    BY AskedStep, OwnStep DEF OwnInv
  <1>4. QED
    BY <1>1, <1>2, <1>3, InvInit, InvStep, OwnInit, OffStep, FirstStep, PTL DEF Spec
=============================================================================
