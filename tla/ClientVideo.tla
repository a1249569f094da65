---------------------------- MODULE ClientVideo -----------------------------
(***************************************************************************)
(* The client's picture: the thread that receives the video channel        *)
(* (tcp_client.c), hands each message to on_video_frame (main.c) and the   *)
(* decoder (video_decoder.cpp), and leaves pictures and sizes in shared    *)
(* buffers; the main loop that draws them (main.c, renderer.c); and the    *)
(* cleanup, which starts while that thread still runs.                     *)
(*                                                                         *)
(* Messages arrive whole and in the order they were sent.  The device has  *)
(* an H.264 encoder, or sends raw pictures; a session never mixes the two. *)
(* The plain stores of the thread become visible in program order, as on   *)
(* the x86 hosts the client is built for.                                  *)
(***************************************************************************)
EXTENDS Naturals, Sequences

CONSTANTS
    Sizes,          \* <<width, height>> of raw pictures; they may change
    ConfigSize,     \* <<width, height>> the server announces
    FirstCap,       \* RECV_BUF_SIZE: the receive buffer to begin with
    MaxFrame,       \* MAX_VIDEO_FRAME_SIZE: what is longer is dropped
    MaxMessages,    \* bound: messages the server sends
    MaxResizes      \* bound: how often the user resizes the window

ASSUME ConstantsAssumption ==
    /\ Sizes \subseteq (Nat \ {0}) \X (Nat \ {0})
    /\ ConfigSize \in (Nat \ {0}) \X (Nat \ {0})
    /\ FirstCap \in Nat \ {0}
    /\ MaxFrame \in Nat
    /\ FirstCap <= MaxFrame
    /\ MaxMessages \in Nat
    /\ MaxResizes \in Nat

Area(size) == size[1] * size[2]
Unknown == <<0, 0>>

Message == [id : 1..MaxMessages, type : {"config", "params", "frame", "raw"},
            size : Sizes \cup {ConfigSize}]
None == [id |-> 0, type |-> "none", size |-> Unknown]

\* The payload of a raw picture is as long as the picture is large.
Length(m) == IF m.type = "raw" THEN Area(m.size) ELSE 1

VARIABLES
    \* the server, and the bytes on their way
    stream,     \* "h264" or "raw"
    announced,  \* has the VideoConfig been sent?
    sent,       \* messages sent
    wire,       \* headers and payloads that have not been received
    link,       \* "up" or "down"
    \* the video thread
    video,      \* where it is
    msg,        \* the message it is at
    cap,        \* bufCap
    decoder,    \* "none", "made" (video_decoder_create) or "open" (spsPpsSet)
    \* shared
    rawMode,    \* g_rawRgbaMode
    pend,       \* g_pendingWidth, g_pendingHeight, g_pendingVideoConfig
    rgba,       \* g_rgbaBuffer: its length, its size, the picture in it
    rgbaReady,  \* g_rgbaFrameReady
    yuv,        \* g_yuvPlanes: are they there, the picture in them
    yuvReady,   \* g_yuvFrameReady
    receiving,  \* videoThreadRunning; it is reset as the socket is closed
    \* the main thread and the renderer
    main,       \* where it is
    width,      \* the first argument of renderer_update_video_size, read
    videoSize,  \* videoWidth and videoHeight
    drawnRaw,   \* rgbaMode: a raw picture has been drawn
    shown,      \* the picture that was drawn last
    redraw,     \* needsRedraw
    winEvent,   \* an SDL_WINDOWEVENT_SIZE_CHANGED is in the queue
    fresh,      \* what is on the screen was drawn for the window as it is
    resizes     \* resizes by the user so far

wireVars == <<stream, announced, sent, wire, link>>
threadVars == <<video, msg, cap, decoder>>
pictures == <<rgba, rgbaReady, yuv, yuvReady>>
renderer == <<videoSize, drawnRaw, shown, redraw, winEvent, fresh, resizes>>
vars == <<wireVars, threadVars, rawMode, pend, pictures, receiving, main, width, renderer>>

Init ==
    /\ stream \in {"h264", "raw"}
    /\ announced = FALSE
    /\ sent = 0
    /\ wire = <<>>
    /\ link = "up"
    /\ video = "header"
    /\ msg = None
    /\ cap = FirstCap
    /\ decoder \in {"none", "made"}
    /\ rawMode = FALSE
    /\ pend = [w |-> 0, h |-> 0, flag |-> FALSE]
    /\ rgba = [len |-> 0, size |-> Unknown, pic |-> 0, of |-> Unknown]
    /\ rgbaReady = FALSE
    /\ yuv = [have |-> FALSE, pic |-> 0]
    /\ yuvReady = FALSE
    /\ receiving = TRUE
    /\ main = "top"
    /\ width = 0
    /\ videoSize = Unknown
    /\ drawnRaw = FALSE
    /\ shown = 0
    /\ redraw = FALSE
    /\ winEvent = FALSE
    /\ fresh = TRUE
    /\ resizes = 0

Alive == main # "crashed"
Exit == {"free", "stopServer", "destroyDecoder", "disconnect", "join", "done", "crashed"}

-----------------------------------------------------------------------------
\* The server.  The encoder is started before the configuration is sent and
\* may send first; the capture, the source of raw pictures, is started after.

NextMessages ==
    {m \in Message :
        /\ m.id = sent + 1
        /\ m.type = "raw" => stream = "raw" /\ announced /\ m.size \in Sizes
        /\ m.type = "config" => ~announced
        /\ m.type \in {"params", "frame"} => stream = "h264"
        /\ m.type # "raw" => m.size = ConfigSize}

Send ==
    /\ Alive /\ link = "up"
    /\ \E m \in NextMessages :
        /\ wire' = wire \o <<[part |-> "header", msg |-> m], [part |-> "payload", msg |-> m]>>
        /\ announced' = (announced \/ m.type = "config")
    /\ sent' = sent + 1
    /\ UNCHANGED <<stream, link, threadVars, rawMode, pend, pictures, receiving, main, width, renderer>>

\* The server ends or the cable is pulled, between two messages or in the
\* middle of the last one.
LoseLink ==
    /\ link' = "down"
    /\ wire' = wire \/ wire' = SubSeq(wire, 1, Len(wire) - 1)

LinkBreaks ==
    /\ Alive /\ link = "up"
    /\ LoseLink
    /\ UNCHANGED <<stream, announced, sent, threadVars, rawMode, pend,
                   pictures, receiving, main, width, renderer>>

-----------------------------------------------------------------------------
\* The video thread: video_thread_func.

Others == <<stream, announced, sent, link, receiving, main, width, renderer>>

\* Mutant of RecvHeader: there is no upper bound for a frame.
RecvHeaderOfAny ==
    /\ Alive /\ video = "header" /\ wire # <<>>
    /\ msg' = Head(wire).msg
    /\ wire' = Tail(wire)
    /\ video' = "payload"
    /\ UNCHANGED <<cap, decoder, rawMode, pend, pictures, Others>>

\* A length of 0 is never sent.
RecvHeader ==
    /\ Alive /\ video = "header" /\ wire # <<>>
    /\ msg' = Head(wire).msg
    /\ wire' = Tail(wire)
    /\ video' = IF Length(msg') > MaxFrame THEN "sink" ELSE "payload"
    /\ UNCHANGED <<cap, decoder, rawMode, pend, pictures, Others>>

\* Mutant of Sink: the payload of a frame that is too large stays in the socket.
SinkNot ==
    /\ Alive /\ video = "sink" /\ wire # <<>>
    /\ video' = "header"
    /\ UNCHANGED <<wire, msg, cap, decoder, rawMode, pend, pictures, Others>>

\* A frame that is too large is read and dropped.
Sink ==
    /\ Alive /\ video = "sink" /\ wire # <<>>
    /\ wire' = Tail(wire)
    /\ video' = "header"
    /\ UNCHANGED <<msg, cap, decoder, rawMode, pend, pictures, Others>>

\* The buffer grows if it must; then on_video_frame is called.
RecvPayload ==
    /\ Alive /\ video = "payload" /\ wire # <<>>
    /\ wire' = Tail(wire)
    /\ cap' = IF Length(msg) > cap THEN Length(msg) ELSE cap
    /\ video' = msg.type
    /\ UNCHANGED <<msg, decoder, rawMode, pend, pictures, Others>>

\* realloc fails, the connection has ended, or the socket was closed: the
\* thread returns, and nobody looks at the state it sets.
ThreadEnds ==
    /\ Alive
    /\ \/ video = "payload" /\ Length(msg) > cap
       \/ video \in {"header", "payload", "sink"} /\ wire = <<>> /\ link = "down"
       \/ video \in {"header", "payload", "sink"} /\ ~receiving
    /\ video' = "ended"
    /\ UNCHANGED <<wire, msg, cap, decoder, rawMode, pend, pictures, Others>>

-----------------------------------------------------------------------------
\* The video thread: on_video_frame for a configuration and a raw picture.

\* The first raw picture also posts its size.
BeginPost ==
    /\ Alive
    /\ \/ video = "config" /\ video' = "postW" /\ UNCHANGED rawMode
       \/ video = "raw" /\ video' = (IF rawMode THEN "reserve" ELSE "postW") /\ rawMode' = TRUE
    /\ UNCHANGED <<wire, msg, cap, decoder, pend, pictures, Others>>

PostWidth ==
    /\ Alive /\ video = "postW"
    /\ pend' = [pend EXCEPT !.w = msg.size[1]]
    /\ video' = "postH"
    /\ UNCHANGED <<wire, msg, cap, decoder, rawMode, pictures, Others>>

PostHeight ==
    /\ Alive /\ video = "postH"
    /\ pend' = [pend EXCEPT !.h = msg.size[2]]
    /\ video' = "postFlag"
    /\ UNCHANGED <<wire, msg, cap, decoder, rawMode, pictures, Others>>

PostFlag ==
    /\ Alive /\ video = "postFlag"
    /\ pend' = [pend EXCEPT !.flag = TRUE]
    /\ video' = IF msg.type = "raw" THEN "reserve" ELSE "header"
    /\ UNCHANGED <<wire, msg, cap, decoder, rawMode, pictures, Others>>

\* Mutant of ReserveRgba: a buffer is kept whatever its length.
ReserveRgbaOnce ==
    /\ Alive /\ video = "reserve"
    /\ IF rgba.len > 0
         THEN rgba' = [rgba EXCEPT !.pic = 0] /\ video' = "copyRgba"
         ELSE \E got \in BOOLEAN :
                /\ rgba' = [len |-> IF got THEN Area(msg.size) ELSE 0,
                            size |-> msg.size, pic |-> 0, of |-> Unknown]
                /\ video' = IF got THEN "copyRgba" ELSE "header"
    /\ UNCHANGED <<wire, msg, cap, decoder, rawMode, pend, rgbaReady, yuv, yuvReady, Others>>

\* Under g_rgbaMutex: a buffer for another number of pixels is replaced, and
\* only then its size is set.  malloc may fail.
ReserveRgba ==
    /\ Alive /\ video = "reserve"
    /\ IF rgba.len > 0 /\ Area(rgba.size) = Area(msg.size)
         THEN rgba' = [rgba EXCEPT !.pic = 0] /\ video' = "copyRgba"
         ELSE \E got \in BOOLEAN :
                /\ rgba' = [len |-> IF got THEN Area(msg.size) ELSE 0,
                            size |-> msg.size, pic |-> 0, of |-> Unknown]
                /\ video' = IF got THEN "copyRgba" ELSE "header"
    /\ UNCHANGED <<wire, msg, cap, decoder, rawMode, pend, rgbaReady, yuv, yuvReady, Others>>

\* The copy is complete; g_rgbaMutex is released.
CopyRgba ==
    /\ Alive /\ video = "copyRgba"
    /\ rgba' = [rgba EXCEPT !.pic = msg.id, !.of = msg.size]
    /\ rgbaReady' = TRUE
    /\ video' = "header"
    /\ UNCHANGED <<wire, msg, cap, decoder, rawMode, pend, yuv, yuvReady, Others>>

-----------------------------------------------------------------------------
\* The video thread: the decoder.

\* video_decoder_set_sps_pps.  Without a codec context it writes through NULL.
\* avcodec_open2 may fail; once the codec is open it has nothing to do.
SetParams ==
    /\ Alive /\ video = "params"
    /\ decoder # "none"
    /\ decoder' \in {decoder, "open"}
    /\ video' = "header"
    /\ UNCHANGED <<wire, msg, cap, rawMode, pend, pictures, Others>>

SetParamsCrashes ==
    /\ Alive /\ video = "params"
    /\ decoder = "none"
    /\ main' = "crashed"
    /\ UNCHANGED <<wireVars, threadVars, rawMode, pend, pictures, receiving, width, renderer>>

\* video_decoder_decode: nothing is decoded before the parameter sets.
BeginDecode ==
    /\ Alive /\ video = "frame"
    /\ video' = IF decoder = "open" THEN "decode" ELSE "header"
    /\ UNCHANGED <<wire, msg, cap, decoder, rawMode, pend, pictures, Others>>

\* FFmpeg has a picture, and on_decoded_frame takes g_yuvMutex; or it has none.
Decode ==
    /\ Alive /\ video = "decode"
    /\ \/ video' = "copyYuv" /\ yuv' = [have |-> TRUE, pic |-> 0]
       \/ video' = "header" /\ UNCHANGED yuv
    /\ UNCHANGED <<wire, msg, cap, decoder, rawMode, pend, rgba, rgbaReady, yuvReady, Others>>

\* Mutant of CopyYuv: the frame is not marked as ready.
CopyYuvSilently ==
    /\ Alive /\ video = "copyYuv"
    /\ yuv' = [yuv EXCEPT !.pic = msg.id]
    /\ video' = "header"
    /\ UNCHANGED <<wire, msg, cap, decoder, rawMode, pend, rgba, rgbaReady, yuvReady, Others>>

\* The copy is complete; g_yuvMutex is released.
CopyYuv ==
    /\ Alive /\ video = "copyYuv"
    /\ yuv' = [yuv EXCEPT !.pic = msg.id]
    /\ yuvReady' = TRUE
    /\ video' = "header"
    /\ UNCHANGED <<wire, msg, cap, decoder, rawMode, pend, rgba, rgbaReady, Others>>

VideoThread ==
    \/ RecvHeader \/ Sink \/ RecvPayload \/ ThreadEnds
    \/ BeginPost \/ PostWidth \/ PostHeight \/ PostFlag
    \/ ReserveRgba \/ CopyRgba
    \/ SetParams \/ SetParamsCrashes \/ BeginDecode \/ Decode \/ CopyYuv

-----------------------------------------------------------------------------
\* The user.

ResizeWindow ==
    /\ main \notin Exit /\ resizes < MaxResizes
    /\ resizes' = resizes + 1
    /\ winEvent' = TRUE
    /\ fresh' = FALSE
    /\ UNCHANGED <<wireVars, threadVars, rawMode, pend, pictures, receiving, main, width,
                   videoSize, drawnRaw, shown, redraw>>

-----------------------------------------------------------------------------
\* The main loop.

\* g_running, which SDL_QUIT or a signal resets at any time, is looked at here.
Top ==
    /\ main = "top"
    /\ main' \in {"events", "free"}
    /\ UNCHANGED <<wireVars, threadVars, rawMode, pend, pictures, receiving, width, renderer>>

\* Mutant of HandleEvents: a resize asks for no redraw.
HandleEventsOnly ==
    /\ main = "events"
    /\ winEvent' = FALSE
    /\ main' = "pending"
    /\ UNCHANGED <<wireVars, threadVars, rawMode, pend, pictures, receiving, width,
                   videoSize, drawnRaw, shown, redraw, fresh, resizes>>

\* renderer_handle_event: a window of another size is redrawn.
HandleEvents ==
    /\ main = "events"
    /\ redraw' = (redraw \/ winEvent)
    /\ winEvent' = FALSE
    /\ main' = "pending"
    /\ UNCHANGED <<wireVars, threadVars, rawMode, pend, pictures, receiving, width,
                   videoSize, drawnRaw, shown, fresh, resizes>>

\* g_pendingVideoConfig is looked at, and the width read; the height is read
\* later, and the flag reset after the call has returned.
CheckPending ==
    /\ main = "pending"
    /\ IF pend.flag THEN main' = "apply" /\ width' = pend.w
                    ELSE main' = "draw" /\ UNCHANGED width
    /\ UNCHANGED <<wireVars, threadVars, rawMode, pend, pictures, receiving, renderer>>

\* renderer_update_video_size: the window may take another size, for which
\* what was drawn before is out of date.
UpdateVideoSize(size, drawn) ==
    \E changes \in BOOLEAN :
        /\ videoSize' = size
        /\ winEvent' = (winEvent \/ changes)
        /\ fresh' = (drawn /\ ~changes)

ApplyPending ==
    /\ main = "apply"
    /\ UpdateVideoSize(<<width, pend.h>>, fresh)
    /\ main' = "clear"
    /\ width' = 0
    /\ UNCHANGED <<wireVars, threadVars, rawMode, pend, pictures, receiving,
                   drawnRaw, shown, redraw, resizes>>

ClearPending ==
    /\ main = "clear"
    /\ pend' = [pend EXCEPT !.flag = FALSE]
    /\ main' = "draw"
    /\ UNCHANGED <<wireVars, threadVars, rawMode, pictures, receiving, width, renderer>>

\* Mutant of DrawRgba: the size of the first raw picture is not given to the
\* renderer; the pending configuration is relied on.
DrawRgbaAsConfigured ==
    /\ main = "draw" /\ rawMode
    /\ video # "copyRgba"
    /\ redraw' = FALSE
    /\ main' = "top"
    /\ IF (rgbaReady \/ redraw) /\ rgba.len > 0
         THEN /\ shown' = rgba.pic
              /\ rgbaReady' = FALSE
              /\ drawnRaw' = TRUE
              /\ fresh' = TRUE
         ELSE UNCHANGED <<shown, rgbaReady, drawnRaw, fresh>>
    /\ UNCHANGED <<wireVars, threadVars, rawMode, pend, rgba, yuv, yuvReady, receiving,
                   width, videoSize, winEvent, resizes>>

\* The raw picture, under g_rgbaMutex.  The first one also sets the size.
DrawRgba ==
    /\ main = "draw" /\ rawMode
    /\ video # "copyRgba"
    /\ redraw' = FALSE
    /\ main' = "top"
    /\ IF (rgbaReady \/ redraw) /\ rgba.len > 0
         THEN /\ shown' = rgba.pic
              /\ rgbaReady' = FALSE
              /\ drawnRaw' = TRUE
              /\ IF drawnRaw THEN fresh' = TRUE /\ UNCHANGED <<videoSize, winEvent>>
                             ELSE UpdateVideoSize(rgba.size, TRUE)
         ELSE UNCHANGED <<shown, rgbaReady, drawnRaw, fresh, videoSize, winEvent>>
    /\ UNCHANGED <<wireVars, threadVars, rawMode, pend, rgba, yuv, yuvReady, receiving,
                   width, resizes>>

\* Mutant of DrawYuv: g_yuvMutex is not taken.
DrawYuvUnlocked ==
    /\ main = "draw" /\ ~rawMode
    /\ redraw' = FALSE
    /\ main' = "top"
    /\ IF (yuvReady \/ redraw) /\ yuv.have
         THEN shown' = yuv.pic /\ yuvReady' = FALSE /\ fresh' = TRUE
         ELSE UNCHANGED <<shown, yuvReady, fresh>>
    /\ UNCHANGED <<wireVars, threadVars, rawMode, pend, rgba, rgbaReady, yuv, receiving,
                   width, videoSize, drawnRaw, winEvent, resizes>>

\* The decoded picture, under g_yuvMutex.
DrawYuv ==
    /\ main = "draw" /\ ~rawMode
    /\ video # "copyYuv"
    /\ redraw' = FALSE
    /\ main' = "top"
    /\ IF (yuvReady \/ redraw) /\ yuv.have
         THEN shown' = yuv.pic /\ yuvReady' = FALSE /\ fresh' = TRUE
         ELSE UNCHANGED <<shown, yuvReady, fresh>>
    /\ UNCHANGED <<wireVars, threadVars, rawMode, pend, rgba, rgbaReady, yuv, receiving,
                   width, videoSize, drawnRaw, winEvent, resizes>>

-----------------------------------------------------------------------------
\* The cleanup.

\* The buffers are freed; neither mutex is taken.
FreeBuffers ==
    /\ main = "free"
    /\ rgba' = [rgba EXCEPT !.len = 0, !.pic = 0, !.of = Unknown]
    /\ yuv' = [have |-> FALSE, pic |-> 0]
    /\ main' = "stopServer"
    /\ UNCHANGED <<wireVars, threadVars, rawMode, pend, rgbaReady, yuvReady, receiving, width, renderer>>

\* hdc_manager_stop_server may fail.
StopServer ==
    /\ main = "stopServer"
    /\ LoseLink \/ UNCHANGED <<link, wire>>
    /\ main' = "destroyDecoder"
    /\ UNCHANGED <<stream, announced, sent, threadVars, rawMode, pend,
                   pictures, receiving, width, renderer>>

DestroyDecoder ==
    /\ main = "destroyDecoder"
    /\ decoder' = "none"
    /\ main' = "disconnect"
    /\ UNCHANGED <<wireVars, video, msg, cap, rawMode, pend, pictures, receiving, width, renderer>>

\* tcp_client_disconnect: close, then join.
Disconnect ==
    /\ main = "disconnect"
    /\ receiving' = FALSE
    /\ main' = "join"
    /\ UNCHANGED <<wireVars, threadVars, rawMode, pend, pictures, width, renderer>>

Join ==
    /\ main = "join"
    /\ video = "ended"
    /\ main' = "done"
    /\ UNCHANGED <<wireVars, threadVars, rawMode, pend, pictures, receiving, width, renderer>>

MainThread ==
    \/ Top \/ HandleEvents \/ CheckPending \/ ApplyPending \/ ClearPending
    \/ DrawRgba \/ DrawYuv
    \/ FreeBuffers \/ StopServer \/ DestroyDecoder \/ Disconnect \/ Join

Next ==
    \/ Send \/ LinkBreaks
    \/ VideoThread
    \/ MainThread
    \/ ResizeWindow

\* Both threads go on running; the server, the link and the user need not.
Spec == Init /\ [][Next]_vars /\ WF_vars(VideoThread) /\ WF_vars(MainThread)

-----------------------------------------------------------------------------
\* Properties.

AnySize == Sizes \cup {ConfigSize, Unknown}

WireTypes ==
    /\ stream \in {"h264", "raw"}
    /\ announced \in BOOLEAN
    /\ sent \in 0..MaxMessages
    /\ wire \in Seq([part : {"header", "payload"}, msg : Message])
    /\ link \in {"up", "down"}

ThreadTypes ==
    /\ video \in {"header", "payload", "sink", "config", "params", "frame", "raw", "postW",
                  "postH", "postFlag", "reserve", "copyRgba", "decode", "copyYuv", "ended"}
    /\ msg \in Message \cup {None}
    /\ cap \in FirstCap..MaxFrame
    /\ decoder \in {"none", "made", "open"}

SharedTypes ==
    /\ rawMode \in BOOLEAN
    /\ pend \in [w : Nat, h : Nat, flag : BOOLEAN]
    /\ rgba \in [len : 0..MaxFrame, size : AnySize, pic : 0..MaxMessages, of : AnySize]
    /\ rgbaReady \in BOOLEAN
    /\ yuv \in [have : BOOLEAN, pic : 0..MaxMessages]
    /\ yuvReady \in BOOLEAN
    /\ receiving \in BOOLEAN

MainTypes ==
    /\ main \in {"top", "events", "pending", "apply", "clear", "draw"} \cup Exit
    /\ width \in Nat
    /\ videoSize \in Nat \X Nat
    /\ drawnRaw \in BOOLEAN
    /\ shown \in 0..MaxMessages
    /\ redraw \in BOOLEAN
    /\ winEvent \in BOOLEAN
    /\ fresh \in BOOLEAN
    /\ resizes \in 0..MaxResizes

\* Every variable has its type; the receive buffer never grows beyond
\* MAX_VIDEO_FRAME_SIZE.
TypeOK == WireTypes /\ ThreadTypes /\ SharedTypes /\ MainTypes

\* The thread never takes a payload for a header: a frame that is too large is
\* read to its end (video_thread_func), so that what follows is not lost.
InStep ==
    wire # <<>> /\ video # "ended" =>
        Head(wire).part = (IF video \in {"payload", "sink"} THEN "payload" ELSE "header")

\* What is drawn is a whole picture, never one the video thread is copying
\* (the mutexes of on_video_frame, on_decoded_frame and the main loop).
WholePictures == [][shown' # shown => shown' > 0]_vars

\* The buffer of the raw pictures is as long as the size the renderer reads it
\* with, whatever the sizes that went through it, and so is the picture in it;
\* only its width and height may be those of an earlier picture of as many
\* pixels (on_video_frame).
BufferFits ==
    rgba.len > 0 /\ rgba.pic > 0 => rgba.len = Area(rgba.size) /\ rgba.len = Area(rgba.of)

\* Once a raw picture was drawn, the renderer's video size is that of a raw
\* picture: neither the size of the configuration nor half of each, although
\* the pending size is read, and its flag reset, while the thread may be
\* writing another (main loop, renderer_render_rgba_frame).
DrawnSize == drawnRaw => videoSize \in Sizes

\* The exit, or a crash, excuses the main loop from drawing.
Ending == main \in Exit

\* A picture in the buffers that is newer than what is on the screen does not
\* stay there: it is drawn, or overwritten, and the last one is drawn (the main
\* loop; the ready flags).
Behind == rgba.pic > shown \/ yuv.pic > shown
PictureShown == Behind ~> (~Behind \/ Ending)

\* After the window changed, the last picture is drawn again, also when no new
\* one comes (renderer_take_redraw_request).
Outdated == ~fresh /\ (rgba.pic > 0 \/ yuv.pic > 0)
ResizeRedrawn == Outdated ~> (~Outdated \/ Ending)

\* The main thread frees neither a buffer the video thread is copying to nor
\* the decoder it is decoding with.
NotFreedInUse ==
    /\ video = "copyRgba" => rgba.len > 0
    /\ video = "copyYuv" => yuv.have
    /\ video = "decode" => decoder = "open"
=============================================================================
