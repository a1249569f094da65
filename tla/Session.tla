------------------------------ MODULE Session -------------------------------
(***************************************************************************)
(* A mirroring session from the start of the client to its exit: the hdc   *)
(* commands (hdc_manager.c), the two connections and the handshake         *)
(* (tcp_client.c, tcp_server.c), and the cleanup (main.c of both sides).   *)
(*                                                                         *)
(* The client and the server may be killed at any time, and the client be  *)
(* started again by the user.                                              *)
(* An hdc command may fail; most results are not looked at.  The kernel of *)
(* the device keeps the connections that have not been accepted.  A second *)
(* server that is launched while one runs cannot bind its ports and exits, *)
(* so one server is enough.                                                *)
(***************************************************************************)
EXTENDS Naturals, Sequences, FiniteSets

CONSTANTS
    MaxAttempts,    \* attempts to connect: 10 in main.c
    Backlog,        \* connections the kernel keeps for LISTEN_BACKLOG = 1
    CloseWakesRecv, \* closing a socket wakes the thread in recv: Windows only
    MaxSessions,    \* bound: how often the user starts the client
    MaxHdcFails     \* bound: hdc commands that fail

ASSUME ConstantsAssumption ==
    /\ MaxAttempts \in Nat \ {0}
    /\ Backlog \in Nat \ {0}
    /\ CloseWakesRecv \in BOOLEAN
    /\ MaxSessions \in Nat
    /\ MaxHdcFails \in Nat

Channels == {"video", "control"}
None == <<>>

\* A connection, by the session and the attempt it was made in.
Conns == [ch : Channels, session : 1..MaxSessions, attempt : 0..MaxAttempts]

VARIABLES
    client,     \* where main of the client is
    session,    \* how often the client has been started
    attempt,    \* retryCount
    cli,        \* the client's videoFd and controlFd, or None
    threads,    \* the receiver threads of the client
    forwards,   \* the ports hdc forwards
    hdcFails,   \* hdc commands that have failed
    srv,        \* where main of the server is
    sfd,        \* the server's videoFd and controlFd, or None
    backlog,    \* per port, the connections that have not been accepted
    asked,      \* control connections that carry a HandshakeRequest
    answered,   \* control connections that carry a HandshakeResponse
    closed      \* connections that one side has closed

clientVars == <<client, session, attempt, cli, threads>>
hdcVars == <<forwards, hdcFails>>
serverVars == <<srv, sfd, backlog>>
wire == <<asked, answered, closed>>
vars == <<clientVars, hdcVars, serverVars, wire>>

Init ==
    /\ client = "off"
    /\ session = 0
    /\ attempt = 0
    /\ cli = [ch \in Channels |-> None]
    /\ threads = {}
    /\ forwards = {}
    /\ hdcFails = 0
    /\ srv = "off"
    /\ sfd = [ch \in Channels |-> None]
    /\ backlog = [ch \in Channels |-> <<>>]
    /\ asked = {}
    /\ answered = {}
    /\ closed = {}

-----------------------------------------------------------------------------
\* The end of the server, however it comes: the kernel closes what it has open.

ServerConns ==
    {sfd[ch] : ch \in Channels} \cup UNION {{backlog[ch][i] : i \in DOMAIN backlog[ch]} : ch \in Channels}

ServerGone ==
    /\ srv' = "off"
    /\ sfd' = [ch \in Channels |-> None]
    /\ backlog' = [ch \in Channels |-> <<>>]
    /\ closed' = closed \cup (ServerConns \ {None})
    /\ UNCHANGED <<asked, answered>>

HdcFails ==
    /\ hdcFails < MaxHdcFails
    /\ hdcFails' = hdcFails + 1

\* hdc_manager_stop_server: kill -9; what the commands return is not looked at.
KillServer ==
    \/ ServerGone /\ UNCHANGED hdcFails
    \/ HdcFails /\ UNCHANGED <<serverVars, wire>>

GoTo(pc) == client' = pc /\ UNCHANGED <<session, attempt, cli, threads>>

-----------------------------------------------------------------------------
\* The client: hdc.

\* Without hdc or a device main returns before it has done anything.
StartClient ==
    /\ client \in {"off", "done"}
    /\ session < MaxSessions
    /\ client' \in {"forwardVideo", "off"}
    /\ session' = session + 1
    /\ attempt' = 0
    /\ UNCHANGED <<cli, threads, hdcVars, serverVars, wire>>

ForwardVideo ==
    /\ client = "forwardVideo"
    /\ \/ /\ forwards' = forwards \cup {"video"}
          /\ GoTo("forwardControl")
          /\ UNCHANGED hdcFails
       \/ HdcFails /\ GoTo("done") /\ UNCHANGED forwards
    /\ UNCHANGED <<serverVars, wire>>

ForwardControl ==
    /\ client = "forwardControl"
    /\ \/ /\ forwards' = forwards \cup {"control"}
          /\ GoTo("push")
          /\ UNCHANGED hdcFails
       \/ HdcFails /\ GoTo("done") /\ forwards' = forwards \ {"video"}
    /\ UNCHANGED <<serverVars, wire>>

PushServer ==
    /\ client = "push"
    /\ \/ GoTo("stopOld") /\ UNCHANGED hdcVars
       \/ HdcFails /\ GoTo("done") /\ forwards' = {}
    /\ UNCHANGED <<serverVars, wire>>

\* Mutant of StopOld: a server that is still there is left alone.
StopOldNot ==
    /\ client = "stopOld"
    /\ GoTo("launch")
    /\ UNCHANGED <<hdcVars, serverVars, wire>>

\* A server of an earlier session is killed first.
StopOld ==
    /\ client = "stopOld"
    /\ KillServer
    /\ GoTo("launch")
    /\ UNCHANGED forwards

\* nohup in the shell of the device.  If the command fails, the server may have
\* been started all the same.
Launch ==
    /\ client = "launch"
    /\ \/ /\ srv' = IF srv = "off" THEN "init" ELSE srv
          /\ GoTo("connectVideo")
          /\ UNCHANGED hdcVars
       \/ /\ srv' \in {srv, IF srv = "off" THEN "init" ELSE srv}
          /\ HdcFails
          /\ GoTo("done")
          /\ forwards' = {}
    /\ UNCHANGED <<sfd, backlog, wire>>

-----------------------------------------------------------------------------
\* The client: tcp_client_connect, at most MaxAttempts times, and the handshake.

Listening(ch) ==
    IF ch = "video" THEN srv \notin {"off", "init", "listenVideo"}
                    ELSE srv \notin {"off", "init", "listenVideo", "listenControl"}

\* A connection is there once the kernel of the device has it; the server need
\* not have accepted it.
Connect(ch, next) ==
    LET conn == [ch |-> ch, session |-> session, attempt |-> attempt] IN
    /\ Listening(ch)
    /\ Len(backlog[ch]) < Backlog
    /\ backlog' = [backlog EXCEPT ![ch] = Append(@, conn)]
    /\ cli' = [cli EXCEPT ![ch] = conn]
    /\ client' = next
    /\ UNCHANGED <<session, attempt, threads, hdcVars, srv, sfd, wire>>

\* Mutant of Retry: one attempt too many.
RetryOnceMore ==
    /\ attempt' = attempt + 1
    /\ client' = IF attempt > MaxAttempts THEN "cleanup" ELSE "connectVideo"

Retry ==
    /\ attempt' = attempt + 1
    /\ client' = IF attempt' = MaxAttempts THEN "cleanup" ELSE "connectVideo"

ConnectVideo ==
    /\ client = "connectVideo"
    /\ Connect("video", "connectControl")

ConnectVideoFails ==
    /\ client = "connectVideo"
    /\ ~Listening("video")
    /\ Retry
    /\ UNCHANGED <<session, cli, threads, hdcVars, serverVars, wire>>

ConnectControl ==
    /\ client = "connectControl"
    /\ Connect("control", "request")

\* The video connection is closed; the server may have accepted it, or will.
ConnectControlFails ==
    /\ client = "connectControl"
    /\ ~Listening("control")
    /\ closed' = closed \cup {cli["video"]}
    /\ cli' = [cli EXCEPT !["video"] = None]
    /\ Retry
    /\ UNCHANGED <<session, threads, hdcVars, serverVars, asked, answered>>

SendRequest ==
    /\ client = "request"
    /\ asked' = asked \cup {cli["control"]}
    /\ GoTo("response")
    /\ UNCHANGED <<hdcVars, serverVars, answered, closed>>

\* Mutant of RecvResponse: the client goes on without the response.
RecvResponseNot ==
    /\ client = "response"
    /\ client' = "running"
    /\ threads' = Channels
    /\ UNCHANGED <<session, attempt, cli, hdcVars, serverVars, wire>>

\* The receivers, and the rest of the client, are started.
RecvResponse ==
    /\ client = "response"
    /\ cli["control"] \in answered
    /\ client' = "running"
    /\ threads' = Channels
    /\ UNCHANGED <<session, attempt, cli, hdcVars, serverVars, wire>>

\* renderer_create fails: there is no receiver thread yet.
RendererFails ==
    /\ client = "response"
    /\ cli["control"] \in answered
    /\ GoTo("cleanup")
    /\ UNCHANGED <<hdcVars, serverVars, wire>>

ControlLost == cli["control"] \in closed \ answered

\* Mutant of HandshakeFails: main returns, without the cleanup.
HandshakeFailsReturns ==
    /\ client \in {"request", "response"}
    /\ ControlLost
    /\ GoTo("done")
    /\ UNCHANGED <<hdcVars, serverVars, wire>>

HandshakeFails ==
    /\ client \in {"request", "response"}
    /\ ControlLost
    /\ GoTo("cleanup")
    /\ UNCHANGED <<hdcVars, serverVars, wire>>

-----------------------------------------------------------------------------
\* The client: the receiver threads, and the cleanup.

\* recv returns 0 when the server has closed the connection.
ThreadEnds(ch) ==
    /\ ch \in threads
    /\ cli[ch] \in closed
    /\ threads' = threads \ {ch}
    /\ UNCHANGED <<client, session, attempt, cli, hdcVars, serverVars, wire>>

\* A frame, or a heartbeat reply, lets the thread see that it is to stop; the
\* last use of the socket is over.
ThreadReceives(ch) ==
    /\ client = "join"
    /\ ch \in threads
    /\ srv = "connected"
    /\ sfd[ch] = cli[ch]
    /\ threads' = threads \ {ch}
    /\ closed' = closed \cup {cli[ch]}
    /\ UNCHANGED <<client, session, attempt, cli, hdcVars, serverVars, asked, answered>>

Quit ==
    /\ client = "running"
    /\ GoTo("cleanup")
    /\ UNCHANGED <<hdcVars, serverVars, wire>>

\* Mutant of StopServer: the server is left to the disconnect.
StopServerNot ==
    /\ client = "cleanup"
    /\ GoTo("unforward")
    /\ UNCHANGED <<hdcVars, serverVars, wire>>

StopServer ==
    /\ client = "cleanup"
    /\ KillServer
    /\ GoTo("unforward")
    /\ UNCHANGED forwards

RemoveForwards ==
    /\ client = "unforward"
    /\ \/ forwards' = {} /\ UNCHANGED hdcFails
       \/ HdcFails /\ \E ch \in forwards : forwards' = forwards \ {ch}
    /\ GoTo("disconnect")
    /\ UNCHANGED <<serverVars, wire>>

\* tcp_client_disconnect.  A socket that a thread is in recv with stays open
\* until recv returns, unless closing it makes recv return.
Disconnect ==
    /\ client = "disconnect"
    /\ client' = "join"
    /\ threads' = IF CloseWakesRecv THEN {} ELSE threads
    /\ closed' = closed \cup ({cli[ch] : ch \in Channels \ threads'} \ {None})
    /\ UNCHANGED <<session, attempt, cli, hdcVars, serverVars, asked, answered>>

\* pthread_join, twice; then main returns.
Join ==
    /\ client = "join"
    /\ threads = {}
    /\ client' = "done"
    /\ cli' = [ch \in Channels |-> None]
    /\ UNCHANGED <<session, attempt, threads, hdcVars, serverVars, wire>>

\* The client is killed, at any time.
Crash ==
    /\ client \notin {"off", "done"}
    /\ client' = "off"
    /\ closed' = closed \cup ({cli[ch] : ch \in Channels} \ {None})
    /\ cli' = [ch \in Channels |-> None]
    /\ threads' = {}
    /\ UNCHANGED <<session, attempt, hdcVars, serverVars, asked, answered>>

-----------------------------------------------------------------------------
\* The server.

Step(from, to) == srv = from /\ srv' = to

\* The injector, the capture; it may fail, and main returns.
ServerInit ==
    /\ srv = "init"
    /\ srv' \in {"listenVideo", "off"}
    /\ UNCHANGED <<clientVars, hdcVars, sfd, backlog, wire>>

Listen ==
    /\ Step("listenVideo", "listenControl") \/ Step("listenControl", "acceptVideo")
    /\ UNCHANGED <<clientVars, hdcVars, sfd, backlog, wire>>

\* accept hands out a connection whether or not the client has closed it.
Accept(ch) ==
    /\ backlog[ch] # <<>>
    /\ sfd' = [sfd EXCEPT ![ch] = Head(backlog[ch])]
    /\ backlog' = [backlog EXCEPT ![ch] = Tail(@)]
    /\ UNCHANGED <<clientVars, hdcVars, wire>>

AcceptVideo == Step("acceptVideo", "acceptControl") /\ Accept("video")

AcceptControl == Step("acceptControl", "recvRequest") /\ Accept("control")

RecvRequest ==
    /\ Step("recvRequest", "sendResponse")
    /\ sfd["control"] \in asked
    /\ UNCHANGED <<clientVars, hdcVars, sfd, backlog, wire>>

\* The client is gone: tcp_server_start fails, and main returns.
RecvRequestFails ==
    /\ srv = "recvRequest"
    /\ sfd["control"] \in closed
    /\ ServerGone
    /\ UNCHANGED <<clientVars, hdcVars>>

SendResponse ==
    /\ Step("sendResponse", "connected")
    /\ answered' = answered \cup {sfd["control"]}
    /\ UNCHANGED <<clientVars, hdcVars, sfd, backlog, asked, closed>>

SendResponseFails ==
    /\ srv = "sendResponse"
    /\ sfd["control"] \in closed
    /\ ServerGone
    /\ UNCHANGED <<clientVars, hdcVars>>

\* The server is killed or crashes; or SIGINT or SIGTERM ends the main loop, which
\* nothing else does: no code changes the state from SERVER_STATE_CONNECTED.
ServerDies ==
    /\ srv # "off"
    /\ ServerGone
    /\ UNCHANGED <<clientVars, hdcVars>>

-----------------------------------------------------------------------------
Hdc == ForwardVideo \/ ForwardControl \/ PushServer \/ StopOld \/ Launch

Handshake ==
    \/ ConnectVideo \/ ConnectVideoFails \/ ConnectControl \/ ConnectControlFails
    \/ SendRequest \/ RecvResponse \/ RendererFails \/ HandshakeFails

Cleanup == StopServer \/ RemoveForwards \/ Disconnect \/ Join

Server ==
    \/ ServerInit \/ Listen \/ AcceptVideo \/ AcceptControl
    \/ RecvRequest \/ RecvRequestFails \/ SendResponse \/ SendResponseFails

Next ==
    \/ StartClient \/ Hdc \/ Handshake \/ Quit \/ Cleanup \/ Crash
    \/ \E ch \in Channels : ThreadEnds(ch) \/ ThreadReceives(ch)
    \/ Server \/ ServerDies

Spec == Init /\ [][Next]_vars

\* Every thread that is not blocked goes on.  Nobody has to start, quit or kill
\* anything, and no frame or reply has to come.
Fairness ==
    /\ WF_vars(Hdc \/ Handshake)
    /\ WF_vars(Cleanup)
    /\ \A ch \in Channels : WF_vars(ThreadEnds(ch))
    /\ WF_vars(Server)

FairSpec == Spec /\ Fairness

-----------------------------------------------------------------------------
\* The types.  The attempts never exceed the limit, and a connection is in the
\* place of its channel.
TypeOK ==
    /\ client \in {"off", "forwardVideo", "forwardControl", "push", "stopOld", "launch",
                   "connectVideo", "connectControl", "request", "response", "running",
                   "cleanup", "unforward", "disconnect", "join", "done"}
    /\ session \in 0..MaxSessions
    /\ attempt \in 0..MaxAttempts
    /\ cli \in [Channels -> Conns \cup {None}]
    /\ threads \subseteq Channels
    /\ forwards \subseteq Channels
    /\ hdcFails \in 0..MaxHdcFails
    /\ srv \in {"off", "init", "listenVideo", "listenControl", "acceptVideo",
                "acceptControl", "recvRequest", "sendResponse", "connected"}
    /\ sfd \in [Channels -> Conns \cup {None}]
    /\ backlog \in [Channels -> Seq(Conns)]
    /\ asked \cup answered \cup closed \subseteq Conns

\* Client and server hold the two ends of the same two connections once the
\* handshake is done, if the first attempt to connect was the one that succeeded
\* and every hdc command has worked: then no older connection of this session,
\* or of one that was killed, can be the one the server accepted first.
SameConnections ==
    client = "running" /\ srv = "connected" /\ attempt = 0 /\ hdcFails = 0 => sfd = cli

\* The control connection is the same after any number of attempts, and even when
\* the server of an earlier session could not be killed: such a server answers its
\* own client or none.
SameControl ==
    client = "running" /\ srv = "connected" => sfd["control"] = cli["control"]

\* Whichever way main of the client comes to its return once it has found a device,
\* after failures of the connection, the handshake or the renderer and whatever an
\* earlier session that was killed has left behind, it leaves no server and no forward
\* on the device.
CleanExit == client = "done" /\ hdcFails = 0 => srv = "off" /\ forwards = {}

\* The handshake comes to an end, though recv has no timeout: either the server
\* answers or its connection is closed.
HandshakeDecides == client = "response" ~> client # "response" \/ hdcFails > 0

\* The cleanup comes to an end: killing the server first is what lets the receiver
\* threads that pthread_join waits for return from recv.
ExitCompletes == client = "join" ~> client # "join" \/ hdcFails > 0

\* CODE_WIKI.md draws SERVER_STATE_CONNECTED -> SERVER_STATE_ERROR, and main's loop
\* runs for as long as the state is SERVER_STATE_CONNECTED: the server does not stay
\* connected to a client that is gone.
ServerNotices ==
    srv = "connected" /\ sfd["control"] \in closed ~> srv # "connected"
=============================================================================
